---- MODULE Spec2Model ----
(***************************************************************************)
(* Event-sourced office state engine of claude-office: the per-session     *)
(* StateMachine fold (backend/app/core/state_machine.py) and the           *)
(* EventProcessor pipeline (backend/app/core/event_processor.py).          *)
(*                                                                         *)
(* Conventions: an absent optional string is None, an absent optional      *)
(* integer is NoneInt, an absent bubble is NoBubble.  Python dicts keep    *)
(* insertion order, so the agent registry is a sequence of agent records   *)
(* with pairwise distinct ids.  Wall-clock values written by the fold      *)
(* (news timestamps, lifespan start/end, last_incident_time) are kept only *)
(* as "set / not set".  Event.data is a required field of Event, so the    *)
(* `if event.data` guards of the code are always true and are not shown.   *)
(***************************************************************************)
EXTENDS Integers, Sequences, FiniteSets, TLC

\* ------------------------------------------------------------------ bounds
MaxFoldSteps == 2      \* events folded per behaviour of SpecFold
NumChoices == 2        \* modelled length of each random.choice list
MaxEvents == 3         \* events entering the processor per behaviour
MaxTasks == 2          \* process_event / callback coroutines alive at once
MaxRestarts == 1       \* process restarts per behaviour

\* ------------------------------------------------------- program constants
MAX_AGENTS == 8
HISTORY_MAX == 500
NEWS_MAX == 20
LIFESPANS_MAX == 10
NUM_COLORS == 8

None == "None"
NoneInt == -1
NoBubble == [type |-> "none", text |-> "", icon |-> "", persistent |-> FALSE]

\* ------------------------------------------------------------ sequences
RECURSIVE IndexOf(_, _, _)
IndexOf(s, x, i) ==
  IF i > Len(s) THEN 0 ELSE IF s[i] = x THEN i ELSE IndexOf(s, x, i + 1)

InSeq(s, x) == IndexOf(s, x, 1) # 0

RemoveAt(s, i) == SubSeq(s, 1, i - 1) \o SubSeq(s, i + 1, Len(s))

\* list.remove(x) guarded by `if x in list`
RemoveFirst(s, x) == IF InSeq(s, x) THEN RemoveAt(s, IndexOf(s, x, 1)) ELSE s

\* list[-n:]
LastN(s, n) == IF Len(s) > n THEN SubSeq(s, Len(s) - n + 1, Len(s)) ELSE s

\* list[:n]
FirstN(s, n) == IF Len(s) > n THEN SubSeq(s, 1, n) ELSE s

SeqRange(s) == {s[i] : i \in 1..Len(s)}

\* ------------------------------------------------------------- the events
EventTypes ==
  {"session_start", "session_end", "pre_tool_use", "post_tool_use",
   "user_prompt_submit", "permission_request", "notification",
   "subagent_start", "subagent_info", "subagent_stop", "agent_update", "stop",
   "cleanup", "context_compaction", "reporting", "walking_to_desk", "waiting",
   "leaving", "error"}

NoInput ==
  [none |-> TRUE, empty |-> TRUE, file_path |-> "", pattern |-> "", command |-> "",
   todos_is_list |-> TRUE, todos |-> <<>>]

\* EventData with every optional field absent
EventData ==
  [tool_name |-> None, tool_input |-> NoInput, success |-> None,
   agent_id |-> None, native_agent_id |-> None, agent_name |-> None,
   task_description |-> None, error_type |-> None, prompt |-> None,
   bubble_content |-> NoBubble, boss_phone |-> None, transcript_path |-> None,
   agent_transcript_path |-> None, input_tokens |-> NoneInt,
   output_tokens |-> NoneInt]

Event(type, sid, ts, data) ==
  [event_type |-> type, session_id |-> sid, timestamp |-> ts, data |-> data]

\* Python truthiness of an optional string
Truthy(s) == s # None /\ s # ""

\* --------------------------------------------------- modelled text values
\* Strings are short, contain no home-directory prefix, no newline and no
\* word longer than the display budgets, so compress_path,
\* compress_paths_in_text and truncate_long_words return them unchanged.
\* LongPaths are the paths that reach the display budget.
Paths == {"a.py", "/src/b.py"}
Commands == {"ls", "make fix"}
Prompts == {"do it"}
Descriptions == {"review code", "misc"}

\* file_path.split("/")[-1]
FileNameOf(path) == IF path = "/src/b.py" THEN "b.py" ELSE path
FileNames == {FileNameOf(p) : p \in Paths}

\* "fix" in cmd.lower()
ContainsFix(cmd) == cmd = "make fix"

Categories == {"read", "write", "edit", "bash", "task", "todo", "web", "other"}

\* StateMachine._categorize_tool
CategorizeTool(tool_name) ==
  CASE tool_name \in {"Read", "Glob", "Grep"} -> "read"
    [] tool_name = "Write" -> "write"
    [] tool_name = "Edit" -> "edit"
    [] tool_name = "Bash" -> "bash"
    [] tool_name = "Task" -> "task"
    [] tool_name = "TodoWrite" -> "todo"
    [] tool_name \in {"WebSearch", "WebFetch"} -> "web"
    [] OTHER -> "other"

\* ------------------------------------------------ sources of randomness
\* random.choice over the name lists of generate_agent_name_fallback; only
\* the first NumChoices names of each list are modelled.
ReviewNames == <<"Judge Judy", "The Critic", "Hawkeye">>
GenericNames == <<"Code Cadet", "Bit Buddy", "Logic Larry">>

\* app.core.quotes is not among the sources; its tests require the result to
\* be a member of JOB_COMPLETION_QUOTES and to vary between calls.
JOB_COMPLETION_QUOTES == <<"Job done", "Nailed it", "Ship it">>
GetRandomJobCompletionQuote(r) == JOB_COMPLETION_QUOTES[r]

\* What the fold reads from outside the event: the random draws and the
\* transcript files on disk.
NoUsage == [found |-> FALSE, input_tokens |-> 0, output_tokens |-> 0]
SomeUsage == [found |-> TRUE, input_tokens |-> 7, output_tokens |-> 3]
\* str(Path.home()) of the server process
HOME == "/root"
Env0 == [name |-> 1, quote |-> 1, usage |-> NoUsage, tool_count |-> 0,
         home |-> HOME]

\* SummaryService.generate_agent_name_fallback
GenerateAgentNameFallback(description, r) ==
  IF ~Truthy(description) THEN "The Intern"
  ELSE IF description = "review code" THEN ReviewNames[r]
  ELSE GenericNames[r]

\* ------------------------------------------------------- the StateMachine
StateMachine ==
  [phase |-> "EMPTY", boss_state |-> "idle", boss_bubble |-> NoBubble,
   boss_current_task |-> None, elevator_state |-> "closed", agents |-> <<>>,
   arrival_queue |-> <<>>, handin_queue |-> <<>>, history |-> <<>>,
   todos |-> <<>>, total_input_tokens |-> 0, total_output_tokens |-> 0,
   tool_uses_since_compaction |-> 0, print_report |-> FALSE,
   last_user_prompt |-> None, tool_usage |-> [c \in Categories |-> 0],
   task_completed_count |-> 0, bug_fixed_count |-> 0,
   coffee_break_count |-> 0, code_written_count |-> 0,
   recent_error_count |-> 0, recent_success_count |-> 0,
   consecutive_successes |-> 0, last_incident_time |-> FALSE,
   agent_lifespans |-> <<>>, news_items |-> <<>>, coffee_cups |-> 0,
   file_edits |-> [f \in FileNames |-> 0]]

AgentIds(agents) == {agents[i].id : i \in 1..Len(agents)}

\* `agent_id in self.agents`
HasAgent(agents, id) == id \in AgentIds(agents)

AgentIndex(agents, id) ==
  CHOOSE i \in 1..Len(agents) : agents[i].id = id

\* self.agents[id] = agent : a new key goes last, an old key keeps its place
SetAgent(agents, agent) ==
  IF HasAgent(agents, agent.id)
  THEN [agents EXCEPT ![AgentIndex(agents, agent.id)] = agent]
  ELSE Append(agents, agent)

\* a removal that forgets the queues
remove_agent_RegistryOnly(sm, agent_id) ==
  [sm EXCEPT
     !.agents = IF HasAgent(sm.agents, agent_id)
                THEN RemoveAt(sm.agents, AgentIndex(sm.agents, agent_id))
                ELSE sm.agents]

\* StateMachine.remove_agent
remove_agent(sm, agent_id) ==
  [sm EXCEPT
     !.agents = IF HasAgent(sm.agents, agent_id)
                THEN RemoveAt(sm.agents, AgentIndex(sm.agents, agent_id))
                ELSE sm.agents,
     !.arrival_queue = RemoveFirst(sm.arrival_queue, agent_id),
     !.handin_queue = RemoveFirst(sm.handin_queue, agent_id)]

\* StateMachine._add_news_item
AddNewsItem(sm, category, headline) ==
  [sm EXCEPT !.news_items =
     FirstN(<<[category |-> category, headline |-> headline]>> \o sm.news_items,
            NEWS_MAX)]

\* StateMachine._update_token_usage
UpdateTokenUsage(sm, event, env) ==
  LET d == event.data
      path == IF Truthy(d.transcript_path) THEN d.transcript_path
              ELSE d.agent_transcript_path
  IN IF d.input_tokens # NoneInt \/ d.output_tokens # NoneInt
     THEN [sm EXCEPT
             !.total_input_tokens =
                IF d.input_tokens # NoneInt THEN d.input_tokens ELSE @,
             !.total_output_tokens =
                IF d.output_tokens # NoneInt THEN d.output_tokens ELSE @]
     ELSE IF ~Truthy(path) THEN sm
     ELSE IF ~env.usage.found THEN sm
     ELSE [sm EXCEPT !.total_input_tokens = env.usage.input_tokens,
                     !.total_output_tokens = env.usage.output_tokens]

\* `event.data.tool_input or {}` : the dict the lookups are made on
ToolInputOrEmpty(d) ==
  IF d.tool_input.empty THEN [NoInput EXCEPT !.none = FALSE] ELSE d.tool_input

\* number of dict items of the todos list whose status is "completed"
RECURSIVE CountCompleted(_)
CountCompleted(todos) ==
  IF todos = <<>> THEN 0
  ELSE (IF Head(todos).is_dict /\ Head(todos).status = "completed" THEN 1 ELSE 0)
       + CountCompleted(Tail(todos))

\* StateMachine._track_tool_use
TrackToolUse(sm, event) ==
  LET d == event.data
      tool_name == IF Truthy(d.tool_name) THEN d.tool_name ELSE "unknown"
      tool_input == ToolInputOrEmpty(d)
      category == CategorizeTool(tool_name)
      failed == d.success = "false" \/ Truthy(d.error_type)
      error_msg == IF Truthy(d.error_type) THEN d.error_type ELSE "unknown error"
      s1 == [sm EXCEPT !.tool_usage[category] = @ + 1]
      s2 == IF failed
            THEN AddNewsItem([s1 EXCEPT !.recent_error_count = @ + 1,
                                        !.consecutive_successes = 0,
                                        !.last_incident_time = TRUE],
                             "error", tool_name \o " failed: " \o error_msg)
            ELSE [s1 EXCEPT !.recent_success_count = @ + 1,
                            !.consecutive_successes = @ + 1]
      s3 == IF tool_name \in {"Edit", "Write"}
            THEN [s2 EXCEPT
                    !.code_written_count = @ + 1,
                    !.file_edits =
                       IF tool_input.file_path # ""
                       THEN [@ EXCEPT ![FileNameOf(tool_input.file_path)] = @ + 1]
                       ELSE @]
            ELSE s2
      s4 == IF tool_name = "Bash" /\ ContainsFix(tool_input.command)
            THEN [s3 EXCEPT !.bug_fixed_count = @ + 1]
            ELSE s3
  IN IF tool_name = "TodoWrite" /\ tool_input.todos_is_list
     THEN [s4 EXCEPT !.task_completed_count = CountCompleted(tool_input.todos)]
     ELSE s4

TodoStatuses == {"pending", "in_progress", "completed"}

RECURSIVE ConvertTodos(_)
ConvertTodos(todos) ==
  IF todos = <<>> THEN <<>>
  ELSE LET item == Head(todos)
           status == IF item.status \in TodoStatuses THEN item.status
                     ELSE "pending"
       IN (IF item.is_dict /\ item.content # ""
           THEN <<[content |-> item.content, status |-> status,
                   active_form |-> item.activeForm]>>
           ELSE <<>>) \o ConvertTodos(Tail(todos))

\* StateMachine._parse_todo_write
ParseTodoWrite(sm, event) ==
  LET tool_input == event.data.tool_input
  IN IF tool_input.empty THEN sm
     ELSE IF ~tool_input.todos_is_list THEN sm
     ELSE [sm EXCEPT !.todos = ConvertTodos(tool_input.todos)]

ToolIcon(tool_name) ==
  CASE tool_name = "Read" -> "book"
    [] tool_name = "Write" -> "writing"
    [] tool_name = "Edit" -> "memo"
    [] tool_name = "Bash" -> "computer"
    [] tool_name = "Glob" -> "magnifier-left"
    [] tool_name = "Grep" -> "magnifier-right"
    [] tool_name = "WebSearch" -> "globe"
    [] tool_name = "WebFetch" -> "inbox"
    [] tool_name = "Task" -> "target"
    [] OTHER -> "gear"

\* ------------------------------------------------------------ path_utils
DEFAULT_PATH_MAX_LEN == 35

\* str.startswith, str.endswith, s[n:], s[:n], s[-n:]
StartsWith(s, prefix) ==
  Len(s) >= Len(prefix) /\ SubSeq(s, 1, Len(prefix)) = prefix
EndsWith(s, suffix) ==
  Len(s) >= Len(suffix) /\ SubSeq(s, Len(s) - Len(suffix) + 1, Len(s)) = suffix
DropChars(s, n) == SubSeq(s, n + 1, Len(s))
FirstChars(s, n) == IF Len(s) <= n THEN s ELSE SubSeq(s, 1, n)
LastChars(s, n) == IF Len(s) <= n THEN s ELSE SubSeq(s, Len(s) - n + 1, Len(s))

\* a compression that cuts a path as soon as it reaches the budget
compress_path_CutAtBudget(path, max_len, home) ==
  LET p == IF StartsWith(path, home) THEN "~" \o DropChars(path, Len(home))
           ELSE path
  IN IF path = "" THEN ""
     ELSE IF Len(p) < max_len THEN p
     ELSE "..." \o LastChars(p, max_len - 3)

\* compress_path
compress_path(path, max_len, home) ==
  LET p == IF StartsWith(path, home) THEN "~" \o DropChars(path, Len(home))
           ELSE path
  IN IF path = "" THEN ""
     ELSE IF Len(p) <= max_len THEN p
     ELSE "..." \o LastChars(p, max_len - 3)

\* str.replace(old, new), old not empty
RECURSIVE Replace(_, _, _)
Replace(text, old, new) ==
  IF Len(text) < Len(old) THEN text
  ELSE IF StartsWith(text, old)
  THEN new \o Replace(DropChars(text, Len(old)), old, new)
  ELSE FirstChars(text, 1) \o Replace(DropChars(text, 1), old, new)

\* compress_paths_in_text
compress_paths_in_text(text, home) ==
  IF text = "" THEN "" ELSE Replace(text, home, "~")

\* str.split(): the words of a text whose only whitespace is the space;
\* `word` is the word being read
RECURSIVE Split(_, _)
Split(text, word) ==
  LET done == IF word = "" THEN <<>> ELSE <<word>>
  IN IF text = "" THEN done
     ELSE IF FirstChars(text, 1) = " "
     THEN done \o Split(DropChars(text, 1), "")
     ELSE Split(DropChars(text, 1), word \o FirstChars(text, 1))

\* " ".join(words)
RECURSIVE Join(_)
Join(words) ==
  IF words = <<>> THEN ""
  ELSE IF Len(words) = 1 THEN words[1]
  ELSE words[1] \o " " \o Join(Tail(words))

\* truncate_long_words
truncate_long_words(text, max_len) ==
  LET words == Split(text, "")
  IN Join([i \in 1..Len(words) |->
             IF Len(words[i]) > max_len
             THEN FirstChars(words[i], max_len - 3) \o "..."
             ELSE words[i]])

\* StateMachine._tool_to_thought; home is str(Path.home())
ToolToThought(event, home) ==
  LET d == event.data
      tool_name == IF Truthy(d.tool_name) THEN d.tool_name ELSE ""
      tool_input == ToolInputOrEmpty(d)
      path == IF tool_input.file_path # "" THEN tool_input.file_path
              ELSE tool_input.pattern
      cmd_clean == compress_paths_in_text(tool_input.command, home)
      text == CASE tool_name \in {"Read", "Glob", "Grep", "Write", "Edit"} ->
                     IF path # "" THEN compress_path(path, 35, home)
                     ELSE tool_name
                [] tool_name = "Bash" ->
                     IF tool_input.command = "" THEN tool_name
                     ELSE IF Len(cmd_clean) > 45
                     THEN FirstChars(cmd_clean, 42) \o "..."
                     ELSE cmd_clean
                [] tool_name = "Task" -> "Delegating..."
                [] OTHER -> tool_name
  IN [type |-> "thought",
      text |-> truncate_long_words(compress_paths_in_text(text, home), 35),
      icon |-> ToolIcon(tool_name), persistent |-> FALSE]

\* StateMachine._create_agent
CreateAgent(sm, data, env) ==
  LET agent_id == IF Truthy(data.agent_id) THEN data.agent_id ELSE "unknown"
      count == Len(sm.agents) + 1
      name_source == IF Truthy(data.agent_name) THEN data.agent_name
                     ELSE IF Truthy(data.task_description)
                          THEN data.task_description ELSE ""
  IN [id |-> agent_id, native_id |-> None,
      name |-> GenerateAgentNameFallback(name_source, env.name),
      color |-> (count - 1) % NUM_COLORS, number |-> count,
      state |-> "arriving", desk |-> count, bubble |-> NoBubble,
      current_task |-> data.task_description]

\* the agent id as given, without the "main" default
ActingAgentId_NoDefault(d) == d.agent_id

\* `(event.data.agent_id if event.data else None) or "main"`
ActingAgentId(d) == IF Truthy(d.agent_id) THEN d.agent_id ELSE "main"

\* the placeholder guard without the capacity test
PlaceholderAllowed_NoCap(sm, agent_id) == ~HasAgent(sm.agents, agent_id)

\* the placeholder guard of PRE_TOOL_USE
PlaceholderAllowed(sm, agent_id) ==
  ~HasAgent(sm.agents, agent_id) /\ Len(sm.agents) < MAX_AGENTS

\* the spawn guard without the capacity test
SpawnAllowed_NoCap(sm, d) == Truthy(d.agent_id)

\* the spawn guard of SUBAGENT_START
SpawnAllowed(sm, d) == Truthy(d.agent_id) /\ Len(sm.agents) < MAX_AGENTS

OnSessionStart(sm) ==
  AddNewsItem(
    [sm EXCEPT !.phase = "STARTING", !.boss_state = "idle",
               !.tool_usage = [c \in Categories |-> 0],
               !.task_completed_count = 0, !.bug_fixed_count = 0,
               !.coffee_break_count = 0, !.code_written_count = 0,
               !.recent_error_count = 0, !.recent_success_count = 0,
               !.consecutive_successes = 0, !.last_incident_time = FALSE,
               !.agent_lifespans = <<>>, !.news_items = <<>>,
               !.coffee_cups = 0, !.file_edits = [f \in FileNames |-> 0]],
    "session", "New session started - ready for work!")

OnContextCompaction(sm) ==
  AddNewsItem(
    [sm EXCEPT !.tool_uses_since_compaction = 0, !.coffee_cups = @ + 1,
               !.coffee_break_count = @ + 1],
    "coffee",
    "Coffee break #" \o ToString(sm.coffee_cups + 1) \o "! Context compacted.")

OnPreToolUse(sm, event, env) ==
  LET d == event.data
      tool_name == d.tool_name
      s1 == IF tool_name = "TodoWrite" THEN ParseTodoWrite(sm, event) ELSE sm
      agent_id == ActingAgentId(d)
      bubble == ToolToThought(event, env.home)
      ghost == [CreateAgent(s1,
                            [EventData EXCEPT
                               !.agent_id = agent_id,
                               !.agent_name = "Ghost " \o agent_id,
                               !.task_description = "Resumed mid-session"],
                            env)
                  EXCEPT !.state = "working"]
      s2 == IF PlaceholderAllowed(s1, agent_id)
            THEN [s1 EXCEPT !.agents = SetAgent(@, ghost)]
            ELSE s1
  IN IF tool_name = "Task"
     THEN [s1 EXCEPT !.phase = "DELEGATING", !.boss_state = "delegating",
                     !.elevator_state = "arriving"]
     ELSE IF agent_id = "main"
     THEN [s1 EXCEPT !.boss_bubble = bubble, !.boss_state = "working"]
     ELSE IF HasAgent(s2.agents, agent_id)
     THEN LET i == AgentIndex(s2.agents, agent_id)
          IN [s2 EXCEPT !.agents[i].bubble = bubble,
                        !.agents[i].state = "working",
                        !.arrival_queue = RemoveFirst(@, agent_id)]
     ELSE s2

OnUserPromptSubmit(sm, event) ==
  LET prompt_text == event.data.prompt
      s1 == [sm EXCEPT !.boss_state = "receiving", !.print_report = FALSE,
                       !.last_user_prompt = prompt_text]
  IN IF Truthy(prompt_text)
     THEN [s1 EXCEPT
             !.boss_bubble = [type |-> "speech", text |-> prompt_text,
                              icon |-> "phone", persistent |-> FALSE],
             !.boss_current_task = prompt_text]
     ELSE s1

OnPermissionRequest(sm, event) ==
  LET d == event.data
      agent_id == ActingAgentId(d)
      waiting_bubble == [type |-> "thought", text |-> "Waiting: " \o d.tool_name,
                         icon |-> "question", persistent |-> FALSE]
  IN IF agent_id = "main"
     THEN [sm EXCEPT !.boss_state = "waiting_permission",
                     !.boss_bubble = waiting_bubble]
     ELSE IF HasAgent(sm.agents, agent_id)
     THEN LET i == AgentIndex(sm.agents, agent_id)
          IN [sm EXCEPT !.agents[i].state = "waiting_permission",
                        !.agents[i].bubble = waiting_bubble]
     ELSE sm

OnPostToolUse(sm, event) ==
  LET agent_id == ActingAgentId(event.data)
      s1 == IF agent_id = "main" THEN [sm EXCEPT !.boss_state = "idle"]
            ELSE IF HasAgent(sm.agents, agent_id)
                    /\ sm.agents[AgentIndex(sm.agents, agent_id)].state
                         = "waiting_permission"
            THEN [sm EXCEPT !.agents[AgentIndex(sm.agents, agent_id)].state =
                               "working"]
            ELSE sm
  IN TrackToolUse([s1 EXCEPT !.tool_uses_since_compaction = @ + 1], event)

OnSubagentStart(sm, event, env) ==
  LET d == event.data
      agent == CreateAgent(sm, d, env)
      short_name == agent.name
      s1 == [sm EXCEPT
               !.boss_state = "delegating", !.elevator_state = "open",
               !.arrival_queue = IF InSeq(@, agent.id) THEN @
                                 ELSE Append(@, agent.id),
               !.agents = SetAgent(@, agent), !.phase = "BUSY",
               !.agent_lifespans =
                  LastN(Append(@, [agent_id |-> agent.id,
                                   agent_name |-> short_name,
                                   color |-> agent.color, ended |-> FALSE]),
                        LIFESPANS_MAX)]
  IN IF SpawnAllowed(sm, d)
     THEN AddNewsItem(s1, "agent", short_name \o " joins the team!")
     ELSE sm

\* index of the first agent whose native_id is nid, 0 when there is none
RECURSIVE FirstByNativeId(_, _, _)
FirstByNativeId(agents, nid, i) ==
  IF i > Len(agents) THEN 0
  ELSE IF agents[i].native_id = nid THEN i
  ELSE FirstByNativeId(agents, nid, i + 1)

\* a lookup that tries the native id before the agent_id
StoppingAgentIndex_NativeFirst(sm, d) ==
  IF Truthy(d.native_agent_id)
     /\ FirstByNativeId(sm.agents, d.native_agent_id, 1) # 0
  THEN FirstByNativeId(sm.agents, d.native_agent_id, 1)
  ELSE IF Truthy(d.agent_id) /\ HasAgent(sm.agents, d.agent_id)
  THEN AgentIndex(sm.agents, d.agent_id)
  ELSE 0

\* The agent a SUBAGENT_STOP addresses: agent_id first, then native id.
\* 0 when the stop cannot be resolved.
StoppingAgentIndex(sm, d) ==
  IF Truthy(d.agent_id) /\ HasAgent(sm.agents, d.agent_id)
  THEN AgentIndex(sm.agents, d.agent_id)
  ELSE IF Truthy(d.native_agent_id)
  THEN FirstByNativeId(sm.agents, d.native_agent_id, 1)
  ELSE 0

\* lifespan.end_time of the first open lifespan of agent_id
RECURSIVE CloseLifespan(_, _)
CloseLifespan(lifespans, agent_id) ==
  IF lifespans = <<>> THEN <<>>
  ELSE IF Head(lifespans).agent_id = agent_id /\ ~Head(lifespans).ended
  THEN <<[Head(lifespans) EXCEPT !.ended = TRUE]>> \o Tail(lifespans)
  ELSE <<Head(lifespans)>> \o CloseLifespan(Tail(lifespans), agent_id)

\* a stop that leaves the lifespan open and posts no news
OnSubagentStop_Quiet(sm, event, env) ==
  LET i == StoppingAgentIndex(sm, event.data)
      agent_id == sm.agents[i].id
  IN IF i = 0 THEN sm
     ELSE [sm EXCEPT
             !.agents[i].state = "waiting",
             !.handin_queue = IF InSeq(@, agent_id) THEN @
                              ELSE Append(@, agent_id),
             !.boss_state = "idle"]

\* StateMachine.transition, SUBAGENT_STOP
OnSubagentStop(sm, event, env) ==
  LET d == event.data
      i == StoppingAgentIndex(sm, d)
      agent_id == sm.agents[i].id
      tool_count == IF Truthy(d.agent_transcript_path) THEN env.tool_count
                    ELSE 0
      s1 == [sm EXCEPT
               !.agents[i].state = "waiting",
               !.handin_queue = IF InSeq(@, agent_id) THEN @
                                ELSE Append(@, agent_id),
               !.boss_state = "idle",
               !.tool_uses_since_compaction = @ + tool_count,
               !.agent_lifespans = CloseLifespan(@, agent_id)]
  IN IF i = 0 THEN sm
     ELSE AddNewsItem(s1, "agent",
                      sm.agents[i].name \o " completed their task!")

OnCleanup(sm, event) ==
  IF Truthy(event.data.agent_id) THEN remove_agent(sm, event.data.agent_id)
  ELSE sm

OnStop(sm, event, env) ==
  LET speech_text == IF Truthy(event.data.boss_phone) THEN event.data.boss_phone
                     ELSE GetRandomJobCompletionQuote(env.quote)
  IN AddNewsItem(
       [sm EXCEPT !.phase = "COMPLETING", !.boss_state = "completing",
                  !.boss_bubble = [type |-> "speech", text |-> speech_text,
                                   icon |-> "phone", persistent |-> TRUE]],
       "session", "Job completed! Great work everyone!")

OnSessionEnd(sm) ==
  [sm EXCEPT !.phase = "ENDED", !.boss_state = "idle",
             !.boss_current_task = None]

\* StateMachine.transition
Transition(sm, event, env) ==
  LET s0 == UpdateTokenUsage(sm, event, env)
      t == event.event_type
  IN CASE t = "session_start" -> OnSessionStart(s0)
       [] t = "context_compaction" -> OnContextCompaction(s0)
       [] t = "pre_tool_use" -> OnPreToolUse(s0, event, env)
       [] t = "user_prompt_submit" -> OnUserPromptSubmit(s0, event)
       [] t = "permission_request" -> OnPermissionRequest(s0, event)
       [] t = "post_tool_use" -> OnPostToolUse(s0, event)
       [] t = "subagent_start" -> OnSubagentStart(s0, event, env)
       [] t = "subagent_stop" -> OnSubagentStop(s0, event, env)
       [] t = "cleanup" -> OnCleanup(s0, event)
       [] t = "stop" -> OnStop(s0, event, env)
       [] t = "session_end" -> OnSessionEnd(s0)
       [] OTHER -> s0

\* ---------------------------------------------------------------- raising
\* Python raises where the model's total operators would not: subscripting or
\* formatting a slice of None (`agent_id[-4:]`), `.get` on a tool_input that
\* is None, a None passed to a pydantic `str` field.  TransitionRaises lists
\* every such site of transition together with the path condition under
\* which the code reaches it.
IsStr(x) == x # None

TransitionRaises(sm, event) ==
  LET d == event.data
      t == event.event_type
      agent_id == ActingAgentId(d)
      uses_input == IF Truthy(d.tool_name) THEN d.tool_name ELSE ""
  IN CASE t = "pre_tool_use" ->
            IF d.tool_name = "Task" THEN FALSE
            ELSE \/ uses_input \in {"Read", "Glob", "Grep", "Write", "Edit", "Bash"}
                    /\ ToolInputOrEmpty(d).none
                 \/ ~IsStr(ToolToThought(event, HOME).text)
                 \/ agent_id # "main" /\ PlaceholderAllowed(sm, agent_id)
                    /\ ~IsStr(agent_id)
       [] t = "post_tool_use" ->
            uses_input \in {"Edit", "Write", "Bash", "TodoWrite"}
            /\ ToolInputOrEmpty(d).none
       [] t = "permission_request" -> FALSE
       [] t = "subagent_start" ->
            SpawnAllowed(sm, d) /\ ~IsStr(CreateAgent(sm, d, Env0).id)
       [] t = "user_prompt_submit" -> Truthy(d.prompt) /\ ~IsStr(d.prompt)
       [] OTHER -> FALSE

\* ----------------------------------------------------------------- state
VARIABLES
  sm,         \* SpecFold, SpecTwin: the StateMachine being folded into
  twin,       \* SpecTwin: a second StateMachine fed the same events
  lastEvent,  \* the event folded (SpecFold) or submitted (SpecProc) last
  raised,     \* SpecFold: whether the last transition raised
  nsteps      \* events folded or submitted so far

VARIABLES
  sessions,     \* EventProcessor.sessions: session id -> object (0: absent)
  objs,         \* the StateMachine objects allocated so far, by reference
  db,           \* the EventRecord rows, in insertion (row id) order
  sessionRecs,  \* ids of the SessionRecord rows
  tasks,        \* the process_event / polled-callback coroutines
  errors,       \* per session: exceptions raised / `error` messages sent
  polling,      \* TranscriptPoller._agents: the PolledAgent entries
  installed,    \* per session: the objects put into `sessions` since start
  restarts,     \* process restarts so far
  clock         \* the clock timestamps are read from

VARIABLES
  transcript,   \* SpecParse: the lines of one subagent's transcript file
  polledAgent,  \* SpecParse: the PolledAgent entry of that subagent
  emitted,      \* SpecParse: the events handed to the event callback
  pollStart     \* SpecParse: the file offset polling started at

foldVars == <<sm, twin, lastEvent, raised, nsteps>>
procVars == <<sessions, objs, db, sessionRecs, tasks, errors, polling,
              installed, restarts, clock>>
VARIABLES
  pollerKind,   \* SpecPoll: which poller this is, "transcript" or "task_file"
  registry,     \* SpecPoll: _agents / _sessions, key -> poll_task (0: absent)
  pollLock,     \* SpecPoll: the caller holding the poller's _lock (0: free)
  pollTasks,    \* SpecPoll: the _poll_loop tasks created so far
  callers,      \* SpecPoll: the start_polling / stop_polling / stop_all calls
  stopped,      \* SpecPoll: per key, what the stop_polling since its start found
  lastCall,     \* SpecPoll: the poller call that returned last
  lastEmit      \* SpecPoll: the key whose callback the last step invoked

VARIABLES
  active_connections, \* SpecCast: ConnectionManager.active_connections
  wsState,            \* SpecCast: what has become of each WebSocket
  casts,              \* SpecCast: the broadcast / broadcast_all coroutines
  received            \* SpecCast: per coroutine, the messages each peer got

VARIABLES
  home,          \* SpecPath: str(Path.home()) of the server process
  taskDir,       \* SpecFiles: the session's task directory on disk
  last_modified, \* SpecFiles: TaskFileState.last_modified
  tick           \* SpecFiles: what the last poll tick saw and did

parseVars == <<transcript, polledAgent, emitted, pollStart>>
castVars == <<active_connections, wsState, casts, received>>
pollVars == <<pollerKind, registry, pollLock, pollTasks, callers, stopped,
              lastCall, lastEmit>>
VARIABLES
  watch,         \* SpecWatch: the poll loops and what they saw last
  deleted,       \* SpecDel: the sessions deleted through the API
  ticks          \* SpecOffset: what each pass of the poll loop read

fileVars == <<home, taskDir, last_modified, tick>>
restVars == <<watch, deleted, ticks>>
extVars == <<parseVars, pollVars, castVars, fileVars, restVars>>
otherThanParse == <<foldVars, procVars, pollVars, castVars, fileVars, restVars>>
otherThanPoll == <<foldVars, procVars, parseVars, castVars, fileVars, restVars>>
otherThanCast == <<foldVars, procVars, parseVars, pollVars, fileVars, restVars>>
vars == <<sm, twin, lastEvent, raised, nsteps, sessions, objs, db,
          sessionRecs, tasks, errors, polling, installed, restarts, clock,
          extVars>>

\* the pollers and the connection manager before anything uses them
ParseIdle ==
  transcript = <<>> /\ polledAgent = <<>> /\ emitted = <<>> /\ pollStart = 0
PollIdle ==
  /\ pollerKind = "transcript" /\ registry = <<>> /\ pollLock = 0
  /\ pollTasks = <<>> /\ callers = <<>> /\ stopped = <<>> /\ lastCall = <<>>
  /\ lastEmit = None
CastIdle ==
  active_connections = <<>> /\ wsState = <<>> /\ casts = <<>> /\ received = <<>>
HomeIdle == home = HOME
TaskFilesIdle == taskDir = <<>> /\ last_modified = <<>> /\ tick = <<>>
FileIdle == HomeIdle /\ TaskFilesIdle
DeleteIdle == deleted = {}
TicksIdle == ticks = <<>>
RestIdle == watch = <<>> /\ DeleteIdle /\ TicksIdle
ExtIdle == ParseIdle /\ PollIdle /\ CastIdle /\ FileIdle /\ RestIdle

NoEvent == Event("none", "s0", 0, EventData)

\* ------------------------------------------------ inputs of the fold
AllAgentIds == <<"a1", "a2", "a3", "a4", "a5", "a6", "a7", "a8", "a9">>

RECURSIVE FreshFrom(_, _)
FreshFrom(agents, i) ==
  IF i > Len(AllAgentIds) THEN {}
  ELSE IF HasAgent(agents, AllAgentIds[i]) THEN FreshFrom(agents, i + 1)
  ELSE {AllAgentIds[i]}

\* agent ids are interchangeable: an event names the first or the last agent
\* of the registry or the least id not in it
KnownIds(s) ==
  IF s.agents = <<>> THEN {} ELSE {s.agents[1].id, s.agents[Len(s.agents)].id}
FreshIds(s) == FreshFrom(s.agents, 1)

ReadInput(path) == [NoInput EXCEPT !.none = FALSE, !.empty = FALSE,
                                   !.file_path = path]
BashInput(cmd) == [NoInput EXCEPT !.none = FALSE, !.empty = FALSE,
                                  !.command = cmd]
TodoDict(content, status) ==
  [is_dict |-> TRUE, content |-> content, status |-> status, activeForm |-> None]
TodoInput ==
  [NoInput EXCEPT !.none = FALSE, !.empty = FALSE,
                  !.todos = <<TodoDict("t1", "completed"), TodoDict("t2", "bogus"),
                              TodoDict("", "pending")>>]

PreToolUseData(s) ==
  {[EventData EXCEPT !.agent_id = a] : a \in {None} \cup KnownIds(s)}
  \cup {[EventData EXCEPT !.tool_name = n] : n \in {"Read", "Bash"}}
  \cup {[EventData EXCEPT !.agent_id = a, !.tool_name = "Read",
                          !.tool_input = ReadInput("a.py")]
          : a \in {None} \cup KnownIds(s) \cup FreshIds(s)}
  \cup {[EventData EXCEPT !.tool_name = "Bash", !.tool_input = BashInput("ls")],
        [EventData EXCEPT !.tool_name = "Task"],
        [EventData EXCEPT !.tool_name = "TodoWrite", !.tool_input = TodoInput]}

PostToolUseData(s) ==
  {EventData,
   [EventData EXCEPT !.tool_name = "Bash", !.tool_input = BashInput("make fix"),
                     !.success = "false"],
   [EventData EXCEPT !.tool_name = "TodoWrite", !.tool_input = TodoInput]}
  \cup {[EventData EXCEPT !.agent_id = a, !.tool_name = "Edit",
                          !.tool_input = ReadInput("/src/b.py"),
                          !.success = "true"] : a \in KnownIds(s)}

PermissionRequestData(s) ==
  {EventData}
  \cup {[EventData EXCEPT !.agent_id = a, !.tool_name = "Bash"]
          : a \in KnownIds(s) \cup FreshIds(s)}

SubagentStartData(s) ==
  {EventData}
  \cup {[EventData EXCEPT !.agent_id = a, !.task_description = "review code"]
          : a \in FreshIds(s)}
  \cup {[EventData EXCEPT !.agent_id = a] : a \in FreshIds(s)}
  \cup {[EventData EXCEPT !.agent_id = a, !.agent_name = "misc"]
          : a \in KnownIds(s)}

SubagentStopData(s) ==
  {EventData,
   [EventData EXCEPT !.native_agent_id = "n1", !.agent_transcript_path = "t"]}
  \cup {[EventData EXCEPT !.agent_id = a] : a \in KnownIds(s)}
  \cup {[EventData EXCEPT !.agent_id = a, !.native_agent_id = "n1"]
          : a \in FreshIds(s) \cup KnownIds(s)}

CleanupData(s) ==
  {[EventData EXCEPT !.agent_id = a]
     : a \in {None} \cup KnownIds(s) \cup FreshIds(s)}

\* the payloads folded in SpecFold, per event type
FoldData(s, t) ==
  CASE t = "pre_tool_use" -> PreToolUseData(s)
    [] t = "post_tool_use" -> PostToolUseData(s)
    [] t = "permission_request" -> PermissionRequestData(s)
    [] t = "subagent_start" -> SubagentStartData(s)
    [] t = "subagent_stop" -> SubagentStopData(s)
    [] t = "cleanup" -> CleanupData(s)
    [] t = "user_prompt_submit" -> {EventData, [EventData EXCEPT !.prompt = "do it"]}
    [] t = "stop" -> {EventData, [EventData EXCEPT !.boss_phone = "bye"]}
    [] t = "notification" ->
         {[EventData EXCEPT !.input_tokens = 5],
          [EventData EXCEPT !.transcript_path = "t"]}
    [] OTHER -> {EventData}

FoldTypes ==
  {"session_start", "session_end", "context_compaction", "pre_tool_use",
   "post_tool_use", "user_prompt_submit", "permission_request",
   "subagent_start", "subagent_stop", "cleanup", "stop", "notification"}

\* the outside values a fold of `event` can depend on
EnvsFor(s, event) ==
  LET d == event.data
      t == event.event_type
      names == IF \/ t = "subagent_start" /\ SpawnAllowed(s, d)
                  \/ t = "pre_tool_use" /\ d.tool_name # "Task"
                     /\ ActingAgentId(d) # "main"
                     /\ PlaceholderAllowed(s, ActingAgentId(d))
               THEN 1..NumChoices ELSE {1}
      quotes == IF t = "stop" /\ ~Truthy(d.boss_phone) THEN 1..NumChoices
                ELSE {1}
      usages == IF d.input_tokens = NoneInt /\ d.output_tokens = NoneInt
                   /\ (Truthy(d.transcript_path) \/ Truthy(d.agent_transcript_path))
                THEN {NoUsage, SomeUsage} ELSE {NoUsage}
      counts == IF t = "subagent_stop" /\ Truthy(d.agent_transcript_path)
                THEN {0, 1} ELSE {0}
  IN [name : names, quote : quotes, usage : usages, tool_count : counts,
      home : {HOME}]

\* ------------------------------------------------- the processor's state
SessionIds == {"s1", "s2"}
TaskIds == 1..MaxTasks

IdleTask == [pc |-> "idle", event |-> NoEvent, polled |-> FALSE, sm |-> 0,
             resolved |-> None]

ProcIdle ==
  /\ sessions = [s \in SessionIds |-> 0]
  /\ objs = <<>>
  /\ db = <<>>
  /\ sessionRecs = {}
  /\ tasks = [t \in TaskIds |-> IdleTask]
  /\ errors = [s \in SessionIds |-> [raised |-> 0, reported |-> 0]]
  /\ polling = {}
  /\ installed = [s \in SessionIds |-> {}]
  /\ restarts = 0
  /\ clock = 0

ProcInit == ProcIdle /\ ExtIdle

\* the fold and the processor at rest, for the specifications of the
\* pollers and of the connection manager
CoreIdle ==
  /\ sm = StateMachine
  /\ twin = StateMachine
  /\ lastEvent = NoEvent
  /\ raised = FALSE
  /\ nsteps = 0
  /\ ProcIdle

\* ------------------------------------------------------------- SpecFold
\* The state reached by folding k SubagentStart events for a1..ak (fallback
\* name draw 1) into an empty StateMachine.
RECURSIVE Spawned(_)
Spawned(k) ==
  IF k = 0 THEN StateMachine
  ELSE Transition(Spawned(k - 1),
                  Event("subagent_start", "s1", k,
                        [EventData EXCEPT !.agent_id = AllAgentIds[k],
                                          !.task_description = "misc"]),
                  Env0)

\* the SUBAGENT_INFO follow-up of the processor has linked the first agent
Linked(s) == IF s.agents = <<>> THEN s
             ELSE [s EXCEPT !.agents[1].native_id = "n1"]

\* the follow-up has given one native id to every agent: all of them were
\* polled already when the SUBAGENT_INFO arrived
LinkedAll(s) ==
  [s EXCEPT !.agents = [i \in 1..Len(s.agents) |->
                          [s.agents[i] EXCEPT !.native_id = "n1"]]]

InitAgentCounts == {0, 1, MAX_AGENTS - 1, MAX_AGENTS}

FoldInit ==
  /\ \E k \in InitAgentCounts : sm \in {Spawned(k), Linked(Spawned(k)),
                                         LinkedAll(Spawned(k))}
  /\ twin = StateMachine
  /\ lastEvent = NoEvent
  /\ raised = FALSE
  /\ nsteps = 0
  /\ ProcInit

\* one call of StateMachine.transition
Fold(t, d, env) ==
  LET event == Event(t, "s1", nsteps + 1, d)
  IN /\ nsteps < MaxFoldSteps
     /\ raised' = TransitionRaises(sm, event)
     /\ sm' = IF raised' THEN sm ELSE Transition(sm, event, env)
     /\ lastEvent' = event
     /\ nsteps' = nsteps + 1
     /\ UNCHANGED <<extVars, twin, sessions, objs, db, sessionRecs, tasks, errors,
                    polling, installed, restarts, clock>>

FoldNext ==
  \E t \in FoldTypes : \E d \in FoldData(sm, t) :
    \E env \in EnvsFor(sm, Event(t, "s1", 0, d)) : Fold(t, d, env)

SpecFold == FoldInit /\ [][FoldNext]_vars

\* ------------------------------------------------------------- SpecTwin
\* Two StateMachines in equal states are fed the same events.  Both read the
\* same files; each makes its own random draws.
TwinInit ==
  /\ \E k \in {0, 1} : sm = Spawned(k) /\ twin = Spawned(k)
  /\ lastEvent = NoEvent
  /\ raised = FALSE
  /\ nsteps = 0
  /\ ProcInit

TwinFold(t, d, env1, env2) ==
  LET event == Event(t, "s1", nsteps + 1, d)
  IN /\ nsteps < MaxFoldSteps
     /\ env1.usage = env2.usage
     /\ env1.tool_count = env2.tool_count
     /\ sm' = Transition(sm, event, env1)
     /\ twin' = Transition(twin, event, env2)
     /\ lastEvent' = event
     /\ nsteps' = nsteps + 1
     /\ UNCHANGED <<extVars, raised, sessions, objs, db, sessionRecs, tasks, errors,
                    polling, installed, restarts, clock>>

TwinNext ==
  \E t \in FoldTypes : \E d \in FoldData(sm, t) :
    \E env1, env2 \in EnvsFor(sm, Event(t, "s1", 0, d)) :
      TwinFold(t, d, env1, env2)

SpecTwin == TwinInit /\ [][TwinNext]_vars

\* ------------------------------------------------------- the event log
\* EventRecord rows are kept as the events they were written from: on the
\* modelled fields model_dump followed by model_validate returns the value.
RowsOf(rows, sid) == SelectSeq(rows, LAMBDA r : r.session_id = sid)

\* ORDER BY EventRecord.timestamp ASC (all modelled timestamps are distinct)
RECURSIVE InsertByTimestamp(_, _)
InsertByTimestamp(sorted, r) ==
  IF sorted = <<>> THEN <<r>>
  ELSE IF sorted[Len(sorted)].timestamp < r.timestamp THEN Append(sorted, r)
  ELSE Append(InsertByTimestamp(SubSeq(sorted, 1, Len(sorted) - 1), r),
              sorted[Len(sorted)])

\* rows[lo..hi] inserted one after the other, lowest index first, into the
\* one sequence of S (the halves are bound one after the other, which keeps
\* the evaluation of a long log shallow)
RECURSIVE InsertRange(_, _, _, _)
InsertRange(S, rows, lo, hi) ==
  IF lo > hi THEN S
  ELSE IF lo = hi THEN {InsertByTimestamp(sorted, rows[lo]) : sorted \in S}
  ELSE UNION {InsertRange(left, rows, (lo + hi) \div 2 + 1, hi)
                : left \in {InsertRange(S, rows, lo, (lo + hi) \div 2)}}

OrderByTimestamp(rows) ==
  CHOOSE sorted \in InsertRange({<<>>}, rows, 1, Len(rows)) : TRUE

\* EventProcessor._persist_event: the rows after the commit
PersistEventRows(rows, recs, event) ==
  LET kept == IF event.session_id \in recs
                 /\ event.event_type = "session_start"
              THEN SelectSeq(rows, LAMBDA r : r.session_id # event.session_id)
              ELSE rows
  IN Append(kept, event)

\* EventProcessor._get_event_summary
GetEventSummary(event) ==
  LET d == event.data
      t == event.event_type
  IN CASE t = "session_start" -> "Claude Office session started"
       [] t = "session_end" -> "Claude Office session ended"
       [] t = "pre_tool_use" ->
            LET tool == IF Truthy(d.tool_name) THEN d.tool_name
                        ELSE "Unknown tool"
                target == IF d.tool_input.empty THEN ""
                          ELSE IF d.tool_input.file_path # ""
                          THEN d.tool_input.file_path
                          ELSE d.tool_input.command
            IN IF target = "" THEN "Using " \o tool
               ELSE "Using " \o tool \o " " \o target
       [] t = "post_tool_use" ->
            "Completed " \o (IF Truthy(d.tool_name) THEN d.tool_name ELSE "tool")
       [] t = "user_prompt_submit" ->
            IF Truthy(d.prompt) THEN "User: " \o d.prompt
            ELSE "User submitted prompt"
       [] t = "permission_request" ->
            "Waiting for permission: "
              \o (IF Truthy(d.tool_name) THEN d.tool_name ELSE "tool")
       [] t = "subagent_start" ->
            "Spawned subagent: "
              \o (IF Truthy(d.agent_name) THEN d.agent_name ELSE d.agent_id)
       [] t = "subagent_stop" ->
            "Subagent " \o d.agent_id \o " finished "
              \o (IF d.success = "true" THEN "successfully" ELSE "with errors")
       [] t = "stop" -> "Main agent task complete"
       [] t = "cleanup" -> "Agent " \o d.agent_id \o " left the building"
       [] t = "notification" -> "Notification: info"
       [] OTHER -> "Event: " \o t

\* the HistoryEntry built in _process_event_internal and _restore_session
HistoryEntry(event) ==
  [id |-> event.timestamp, type |-> event.event_type,
   agentId |-> ActingAgentId(event.data), summary |-> GetEventSummary(event)]

\* a JSON value of a stored payload that is not a string
NotAString == "<dict>"

\* EventType(rec.event_type) or EventData.model_validate(rec.data) raises
RowMalformed(rec) ==
  \/ rec.event_type \notin EventTypes
  \/ rec.data.tool_name = NotAString

\* one iteration of the loop of _restore_session, for every outcome of the
\* random draws and transcript reads of transition; a row that cannot be
\* converted or whose transition raises is skipped
ReplayRow(s, evt) ==
  IF RowMalformed(evt) \/ TransitionRaises(s, evt) THEN {s}
  ELSE {[r EXCEPT !.history = Append(@, HistoryEntry(evt))]
          : r \in {Transition(s, evt, env) : env \in EnvsFor(s, evt)}}

\* the loop over rows[lo..hi], lowest index first
RECURSIVE ReplayRange(_, _, _, _)
ReplayRange(S, rows, lo, hi) ==
  IF lo > hi THEN S
  ELSE IF lo = hi THEN UNION {ReplayRow(s, rows[lo]) : s \in S}
  ELSE UNION {ReplayRange(left, rows, (lo + hi) \div 2 + 1, hi)
                : left \in {ReplayRange(S, rows, lo, (lo + hi) \div 2)}}

\* the StateMachines _restore_session can build from the rows it has read
Restored(rows) ==
  {[r EXCEPT !.history = LastN(@, HISTORY_MAX)]
     : r \in ReplayRange({StateMachine}, rows, 1, Len(rows))}

\* sm.transition(event) followed by the history append of
\* _process_event_internal
FoldLive(s, event, env) ==
  [Transition(s, event, env) EXCEPT
     !.history = LastN(Append(@, HistoryEntry(event)), HISTORY_MAX)]

\* where _process_event_internal suspends next after the fold
AfterFold(event, s) ==
  IF event.event_type = "subagent_start" /\ Truthy(event.data.agent_id)
     /\ HasAgent(s.agents, event.data.agent_id)
  THEN "enrich" ELSE "broadcast"

\* the follow-up block of _process_event_internal an event enters after the
\* two broadcasts
AfterBroadcast(event) ==
  LET d == event.data
      t == event.event_type
  IN CASE t = "subagent_start" /\ Truthy(d.agent_id) -> "delegate"
       [] t = "subagent_info" /\ Truthy(d.agent_transcript_path)
            /\ Truthy(d.native_agent_id) -> "link"
       [] t = "agent_update" /\ Truthy(d.agent_id) -> "bubble"
       [] t = "subagent_stop" -> "leave"
       [] t = "stop" -> "speech"
       [] t = "user_prompt_submit" /\ Truthy(d.prompt) -> "task"
       [] OTHER -> "idle"

\* SummaryService.summarize_user_prompt on the modelled prompts: they are
\* short single sentences, returned with their whitespace collapsed
SummarizeUserPrompt(prompt) == IF prompt = "do  it" THEN "do it" ELSE prompt

\* SummaryService.detect_report_request (keyword match)
DetectReportRequest(prompt) == prompt = "write report"

\* TranscriptPoller.is_polling / start_polling / stop_polling
IsPolling(polled, agent_id) == \E p \in polled : p.agent_id = agent_id
StartPolling(polled, agent_id, sid) ==
  IF IsPolling(polled, agent_id) THEN polled
  ELSE polled \cup {[agent_id |-> agent_id, session_id |-> sid]}
StopPolling(polled, agent_id) == {p \in polled : p.agent_id # agent_id}

\* the SUBAGENT_INFO loop: every agent without a native id gets this one,
\* until the first agent that is not polled yet is given the transcript
RECURSIVE LinkNative(_, _, _, _, _)
LinkNative(agents, polled, nid, sid, i) ==
  IF i > Len(agents) THEN [agents |-> agents, polling |-> polled]
  ELSE LET linked == IF agents[i].native_id = None
                     THEN [agents EXCEPT ![i].native_id = nid] ELSE agents
       IN IF ~IsPolling(polled, agents[i].id)
          THEN [agents |-> linked,
                polling |-> StartPolling(polled, agents[i].id, sid)]
          ELSE LinkNative(linked, polled, nid, sid, i + 1)

\* a resolution that settles on the first agent when nothing matches
ResolvedAgentId_Fallback(s, d) ==
  IF Truthy(d.agent_id) /\ HasAgent(s.agents, d.agent_id) THEN d.agent_id
  ELSE IF Truthy(d.native_agent_id)
          /\ FirstByNativeId(s.agents, d.native_agent_id, 1) # 0
  THEN s.agents[FirstByNativeId(s.agents, d.native_agent_id, 1)].id
  ELSE IF s.agents # <<>> THEN s.agents[1].id
  ELSE None

\* the agent the SUBAGENT_STOP follow-up resolves, None when it returns early
ResolvedAgentId(s, d) ==
  IF Truthy(d.agent_id) /\ HasAgent(s.agents, d.agent_id) THEN d.agent_id
  ELSE IF Truthy(d.native_agent_id)
          /\ FirstByNativeId(s.agents, d.native_agent_id, 1) # 0
  THEN s.agents[FirstByNativeId(s.agents, d.native_agent_id, 1)].id
  ELSE None

\* EventProcessor._update_agent_state(.., WALKING_TO_DESK)
UpdateAgentState(s, agent_id, state) ==
  IF HasAgent(s.agents, agent_id)
  THEN [s EXCEPT !.agents[AgentIndex(s.agents, agent_id)].state = state,
                 !.agents[AgentIndex(s.agents, agent_id)].bubble = NoBubble]
  ELSE s

\* the summaries get_last_assistant_response and summarize_response can give
\* for a transcript path: None when the file has no assistant text
Responses(path) == IF Truthy(path) THEN {None, "done"} ELSE {None}

\* ------------------------------------------------------- the processor
\* Steps of one _process_event_internal call; a step runs from one point
\* where the coroutine suspends to the next.
IsFree(t) ==
  /\ tasks[t].pc = "idle"
  /\ \A u \in TaskIds : u < t => tasks[u].pc # "idle"

Quiescent == \A t \in TaskIds : tasks[t].pc = "idle"

\* the caller of a finished coroutine gets control back
Finish(t, pc) ==
  IF pc = "idle" THEN [tasks EXCEPT ![t] = IdleTask]
  ELSE [tasks EXCEPT ![t].pc = pc]

\* receive_event: process_event(event) becomes a background task.  The
\* producer stamps the event; a late event carries a timestamp below that
\* of the event that arrived before it.
Submit(t, type, sid, d, late) ==
  /\ IsFree(t)
  /\ late => clock >= 1
  /\ clock' = clock + 1
  /\ LET ts == IF late THEN 2 * clock' - 3 ELSE 2 * clock'
         event == Event(type, sid, ts, d)
     IN /\ tasks' = [tasks EXCEPT ![t] = [IdleTask EXCEPT !.pc = "persist",
                                                          !.event = event]]
        /\ lastEvent' = event
  /\ nsteps' = nsteps + 1
  /\ UNCHANGED <<extVars, sm, twin, raised, sessions, objs, db, sessionRecs, errors,
                 polling, installed, restarts>>

\* at most MaxEvents events enter the processor in one behaviour
ProcessEvent(t, type, sid, d, late) ==
  /\ nsteps < MaxEvents
  /\ Submit(t, type, sid, d, late)

\* TranscriptPoller._poll_loop hands an event read from the transcript of a
\* polled agent to _handle_polled_event and awaits it
PolledEvents(agent_id) ==
  {<<"pre_tool_use", [EventData EXCEPT !.agent_id = agent_id,
                                       !.tool_name = "Read",
                                       !.tool_input = ReadInput("a.py")]>>,
   <<"agent_update", [EventData EXCEPT
                        !.agent_id = agent_id,
                        !.bubble_content = [type |-> "speech", text |-> "hi",
                                            icon |-> "speech",
                                            persistent |-> FALSE]]>>}

HandlePolledEvent(t, p, e) ==
  /\ IsFree(t)
  /\ nsteps < MaxEvents
  /\ p \in polling
  /\ \A u \in TaskIds :
       ~(tasks[u].polled /\ tasks[u].event.data.agent_id = p.agent_id)
  /\ clock' = clock + 1
  /\ LET event == Event(e[1], p.session_id, 2 * clock', e[2])
     IN /\ tasks' = [tasks EXCEPT ![t] = [IdleTask EXCEPT !.pc = "persist",
                                                          !.event = event,
                                                          !.polled = TRUE]]
        /\ lastEvent' = event
  /\ nsteps' = nsteps + 1
  /\ UNCHANGED <<extVars, sm, twin, raised, sessions, objs, db, sessionRecs, errors,
                 polling, installed, restarts>>

\* _persist_event: one transaction; `fail` is a commit the database refuses
PersistEvent(t, fail) ==
  LET event == tasks[t].event
  IN /\ tasks[t].pc = "persist"
     /\ IF fail
        THEN /\ tasks' = [tasks EXCEPT ![t].pc = "raised"]
             /\ UNCHANGED <<db, sessionRecs>>
        ELSE /\ db' = PersistEventRows(db, sessionRecs, event)
             /\ sessionRecs' = sessionRecs \cup {event.session_id}
             /\ tasks' = [tasks EXCEPT ![t].pc = "resolve"]
     /\ UNCHANGED <<extVars, sm, twin, lastEvent, raised, nsteps, sessions, objs,
                    errors, polling, installed, restarts, clock>>

\* `if event.session_id not in self.sessions`: a resident session is folded
\* into at once, for any other the rows are requested from the database
Resolve(t) ==
  LET event == tasks[t].event
      ref == sessions[event.session_id]
  IN /\ tasks[t].pc = "resolve"
     /\ IF ref = 0
        THEN /\ tasks' = [tasks EXCEPT ![t].pc = "restore"]
             /\ UNCHANGED objs
        ELSE IF TransitionRaises(objs[ref], event)
        THEN /\ tasks' = [tasks EXCEPT ![t].pc = "raised", ![t].sm = ref]
             /\ UNCHANGED objs
        ELSE \E env \in EnvsFor(objs[ref], event) :
               LET s == FoldLive(objs[ref], event, env)
               IN /\ objs' = [objs EXCEPT ![ref] = s]
                  /\ tasks' = [tasks EXCEPT ![t].pc = AfterFold(event, s),
                                            ![t].sm = ref]
     /\ UNCHANGED <<extVars, sm, twin, lastEvent, raised, nsteps, sessions, db,
                    sessionRecs, errors, polling, installed, restarts, clock>>

\* _restore_session from the rows read, the second residency test, and the
\* fold of the event into whatever object the map holds then
RestoreSession(t) ==
  LET event == tasks[t].event
      sid == event.session_id
      rows == OrderByTimestamp(RowsOf(db, sid))
      install == rows # <<>> \/ sessions[sid] = 0
      ref == IF install THEN Len(objs) + 1 ELSE sessions[sid]
  IN /\ tasks[t].pc = "restore"
     /\ \E restored \in (IF rows = <<>> THEN {StateMachine}
                         ELSE Restored(rows)) :
          LET objs1 == IF install THEN Append(objs, restored) ELSE objs
          IN IF TransitionRaises(objs1[ref], event)
             THEN /\ objs' = objs1
                  /\ tasks' = [tasks EXCEPT ![t].pc = "raised", ![t].sm = ref]
             ELSE \E env \in EnvsFor(objs1[ref], event) :
                    LET s == FoldLive(objs1[ref], event, env)
                    IN /\ objs' = [objs1 EXCEPT ![ref] = s]
                       /\ tasks' = [tasks EXCEPT
                                      ![t].pc = AfterFold(event, s),
                                      ![t].sm = ref]
     /\ sessions' = [sessions EXCEPT ![sid] = ref]
     /\ installed' = [installed EXCEPT ![sid] = @ \cup {ref}]
     /\ UNCHANGED <<extVars, sm, twin, lastEvent, raised, nsteps, db, sessionRecs,
                    errors, polling, restarts, clock>>

\* lifespan.agent_name of the first lifespan of agent_id
RECURSIVE RenameLifespan(_, _, _)
RenameLifespan(lifespans, agent_id, name) ==
  IF lifespans = <<>> THEN <<>>
  ELSE IF Head(lifespans).agent_id = agent_id
  THEN <<[Head(lifespans) EXCEPT !.agent_name = name]>> \o Tail(lifespans)
  ELSE <<Head(lifespans)>> \o RenameLifespan(Tail(lifespans), agent_id, name)

\* _enrich_agent_with_summaries and the lifespan rename.  In the modelled
\* runs the agent enriched is the registry entry of its id.
Enrich(t) ==
  LET d == tasks[t].event.data
      ref == tasks[t].sm
      s == objs[ref]
      name_source == IF Truthy(d.agent_name) THEN d.agent_name
                     ELSE IF Truthy(d.task_description)
                          THEN d.task_description ELSE ""
      task_source == IF Truthy(d.task_description) THEN d.task_description
                     ELSE IF Truthy(d.agent_name) THEN d.agent_name ELSE ""
  IN /\ tasks[t].pc = "enrich"
     /\ IF ~HasAgent(s.agents, d.agent_id)
        THEN /\ tasks' = [tasks EXCEPT ![t].pc = "raised"]
             /\ UNCHANGED objs
        ELSE \E r \in (IF Truthy(name_source) THEN 1..NumChoices ELSE {1}) :
               LET i == AgentIndex(s.agents, d.agent_id)
                   name == IF Truthy(name_source)
                           THEN GenerateAgentNameFallback(name_source, r)
                           ELSE s.agents[i].name
                   current == IF Truthy(task_source) THEN task_source
                              ELSE s.agents[i].current_task
               IN /\ objs' = [objs EXCEPT ![ref] =
                                [s EXCEPT
                                   !.agents[i].name = name,
                                   !.agents[i].current_task = current,
                                   !.agent_lifespans =
                                      IF Truthy(name)
                                      THEN RenameLifespan(@, d.agent_id, name)
                                      ELSE @]]
                  /\ tasks' = [tasks EXCEPT ![t].pc = "broadcast"]
     /\ UNCHANGED <<extVars, sm, twin, lastEvent, raised, nsteps, sessions, db,
                    sessionRecs, errors, polling, installed, restarts, clock>>

\* _broadcast_state and the `event` message; ConnectionManager.broadcast
\* drops a connection whose send fails and does not raise
Broadcast(t) ==
  /\ tasks[t].pc = "broadcast"
  /\ tasks' = Finish(t, AfterBroadcast(tasks[t].event))
  /\ UNCHANGED <<extVars, sm, twin, lastEvent, raised, nsteps, sessions, objs, db,
                 sessionRecs, errors, polling, installed, restarts, clock>>

FollowUpSteps == {"delegate", "walk", "link", "bubble", "leave", "remove",
                  "speech", "task"}

\* the follow-up blocks of _process_event_internal (lines 200-302), one step
\* per stretch between two suspensions
FollowUp(t) ==
  LET task == tasks[t]
      event == task.event
      d == event.data
      sid == event.session_id
      ref == task.sm
      s == objs[ref]
      pc == task.pc
  IN /\ pc \in FollowUpSteps
     /\ CASE pc = "delegate" ->
               /\ objs' = [objs EXCEPT ![ref].boss_state = "delegating"]
               /\ polling' = IF Truthy(d.agent_transcript_path)
                             THEN StartPolling(polling, d.agent_id, sid)
                             ELSE polling
               /\ tasks' = Finish(t, "walk")
               /\ UNCHANGED <<db, clock>>
          [] pc = "walk" ->
               LET cur == sessions[sid]
                   objs1 == IF cur = 0 THEN objs
                            ELSE [objs EXCEPT ![cur] =
                                    UpdateAgentState(@, d.agent_id,
                                                     "walking_to_desk")]
               IN /\ objs' = [objs1 EXCEPT ![ref].boss_state = "idle"]
                  /\ tasks' = Finish(t, "idle")
                  /\ UNCHANGED <<db, clock, polling>>
          [] pc = "link" ->
               LET r == LinkNative(s.agents, polling, d.native_agent_id, sid, 1)
               IN /\ objs' = [objs EXCEPT ![ref].agents = r.agents]
                  /\ polling' = r.polling
                  /\ tasks' = Finish(t, "idle")
                  /\ UNCHANGED <<db, clock>>
          [] pc = "bubble" ->
               /\ objs' = IF HasAgent(s.agents, d.agent_id)
                             /\ d.bubble_content # NoBubble
                          THEN [objs EXCEPT
                                  ![ref].agents[AgentIndex(s.agents, d.agent_id)]
                                    .bubble = d.bubble_content]
                          ELSE objs
               /\ tasks' = Finish(t, "idle")
               /\ UNCHANGED <<db, clock, polling>>
          [] pc = "leave" ->
               LET resolved == ResolvedAgentId(s, d)
               IN IF resolved = None
                  THEN /\ tasks' = Finish(t, "idle")
                       /\ UNCHANGED <<objs, db, clock, polling>>
                  ELSE \E resp \in Responses(d.agent_transcript_path) :
                         /\ polling' = StopPolling(polling, resolved)
                         /\ objs' =
                              IF resp = None THEN objs
                              ELSE [objs EXCEPT
                                      ![ref].agents[AgentIndex(s.agents, resolved)]
                                        .bubble =
                                          [type |-> "speech", text |-> resp,
                                           icon |-> "check",
                                           persistent |-> FALSE]]
                         /\ tasks' = [tasks EXCEPT ![t].pc = "remove",
                                                   ![t].resolved = resolved]
                         /\ UNCHANGED <<db, clock>>
          [] pc = "remove" ->
               /\ objs' = [objs EXCEPT ![ref] = remove_agent(@, task.resolved)]
               /\ clock' = clock + 1
               /\ db' = Append(db, Event("cleanup", sid, 2 * clock', d))
               /\ tasks' = Finish(t, "idle")
               /\ UNCHANGED polling
          [] pc = "speech" ->
               \E resp \in Responses(d.transcript_path) :
                 LET s1 == IF resp = None THEN s
                           ELSE [s EXCEPT !.boss_bubble =
                                   [type |-> "speech", text |-> resp,
                                    icon |-> "speech", persistent |-> TRUE]]
                 IN /\ objs' = [objs EXCEPT ![ref] =
                                  IF Truthy(s1.last_user_prompt)
                                  THEN [s1 EXCEPT !.print_report =
                                          DetectReportRequest(s1.last_user_prompt)]
                                  ELSE s1]
                    /\ tasks' = Finish(t, "idle")
                    /\ UNCHANGED <<db, clock, polling>>
          [] pc = "task" ->
               /\ objs' = [objs EXCEPT ![ref].boss_current_task =
                                         SummarizeUserPrompt(d.prompt)]
               /\ tasks' = Finish(t, "idle")
               /\ UNCHANGED <<db, clock, polling>>
     /\ UNCHANGED <<extVars, sm, twin, lastEvent, raised, nsteps, sessions,
                    sessionRecs, errors, installed, restarts>>

\* An exception leaves _process_event_internal.  process_event catches it
\* and broadcasts an `error` message to the session (lines 136-149); for a
\* polled event the caller is TranscriptPoller._poll_loop, which logs a
\* warning (transcript_poller.py lines 122-125).
HandleException(t) ==
  LET sid == tasks[t].event.session_id
  IN /\ tasks[t].pc = "raised"
     /\ errors' = [errors EXCEPT
                     ![sid].raised = @ + 1,
                     ![sid].reported = IF tasks[t].polled THEN @ ELSE @ + 1]
     /\ tasks' = Finish(t, "idle")
     /\ UNCHANGED <<extVars, sm, twin, lastEvent, raised, nsteps, sessions, objs, db,
                    sessionRecs, polling, installed, restarts, clock>>

\* The server process is stopped and started again: memory is lost, the
\* database is kept.
Restart ==
  /\ Quiescent
  /\ restarts < MaxRestarts
  /\ restarts' = restarts + 1
  /\ sessions' = [s \in SessionIds |-> 0]
  /\ objs' = <<>>
  /\ polling' = {}
  /\ installed' = [s \in SessionIds |-> {}]
  /\ UNCHANGED <<extVars, sm, twin, lastEvent, raised, nsteps, db, sessionRecs, tasks,
                 errors, clock>>

\* ------------------------------------------------------------- SpecSeq
\* Events of one session enter process_event one at a time: the next event
\* arrives when the one before it has been processed to its end.
SeqEvents ==
  {<<"session_start", EventData>>,
   <<"post_tool_use", EventData>>,
   <<"user_prompt_submit", [EventData EXCEPT !.prompt = "do  it"]>>,
   <<"subagent_start", [EventData EXCEPT !.agent_id = "a1",
                                         !.agent_transcript_path = "t"]>>,
   <<"subagent_start", [EventData EXCEPT !.agent_id = "a1",
                                         !.task_description = "misc"]>>,
   <<"subagent_start", [EventData EXCEPT !.agent_id = "a2",
                                         !.agent_transcript_path = "t"]>>,
   <<"subagent_info", [EventData EXCEPT !.native_agent_id = "n1",
                                        !.agent_transcript_path = "t"]>>,
   <<"subagent_stop", [EventData EXCEPT !.agent_id = "a1"]>>,
   <<"subagent_stop", [EventData EXCEPT !.native_agent_id = "n1"]>>,
   <<"stop", [EventData EXCEPT !.boss_phone = "bye"]>>}

SeqInit ==
  /\ sm = StateMachine
  /\ twin = StateMachine
  /\ lastEvent = NoEvent
  /\ raised = FALSE
  /\ nsteps = 0
  /\ ProcInit

SeqNext ==
  \/ \E t \in TaskIds : \E e \in SeqEvents : \E late \in BOOLEAN :
       Quiescent /\ ProcessEvent(t, e[1], "s1", e[2], late)
  \/ \E t \in TaskIds : PersistEvent(t, FALSE)
  \/ \E t \in TaskIds : Resolve(t)
  \/ \E t \in TaskIds : RestoreSession(t)
  \/ \E t \in TaskIds : Enrich(t)
  \/ \E t \in TaskIds : Broadcast(t)
  \/ \E t \in TaskIds : FollowUp(t)
  \/ Restart

SpecSeq == SeqInit /\ [][SeqNext]_vars

\* ------------------------------------------------------------- SpecProc
\* Events enter the processor while others are being processed: each POST
\* schedules process_event as its own task and each poll loop calls
\* _handle_polled_event; the tasks interleave where they suspend.
ProcEvents ==
  {<<"post_tool_use", EventData>>,
   <<"subagent_start", [EventData EXCEPT !.agent_id = "a1",
                                         !.agent_transcript_path = "t"]>>,
   <<"subagent_stop", [EventData EXCEPT !.agent_id = "a1"]>>}

ProcNext ==
  \/ \E t \in TaskIds : \E e \in ProcEvents : \E sid \in SessionIds :
       ProcessEvent(t, e[1], sid, e[2], FALSE)
  \/ \E t \in TaskIds : \E p \in polling : \E e \in PolledEvents(p.agent_id) :
       HandlePolledEvent(t, p, e)
  \/ \E t \in TaskIds : \E fail \in BOOLEAN : PersistEvent(t, fail)
  \/ \E t \in TaskIds : Resolve(t)
  \/ \E t \in TaskIds : RestoreSession(t)
  \/ \E t \in TaskIds : Enrich(t)
  \/ \E t \in TaskIds : Broadcast(t)
  \/ \E t \in TaskIds : FollowUp(t)
  \/ \E t \in TaskIds : HandleException(t)

SpecProc == SeqInit /\ [][ProcNext]_vars

\* ------------------------------------------------------------- SpecHist
\* One session that has processed k Notification events, one at a time,
\* processes more of them; the server may be restarted in between.
NoteEvent(i) == Event("notification", "s1", 2 * i, EventData)

NoteRows(k) == [i \in 1..k |-> NoteEvent(i)]

\* NoteEvent(lo) .. NoteEvent(hi) folded live into a resident StateMachine
RECURSIVE NotedRange(_, _, _)
NotedRange(S, lo, hi) ==
  IF lo > hi THEN S
  ELSE IF lo = hi THEN {FoldLive(s, NoteEvent(lo), Env0) : s \in S}
  ELSE UNION {NotedRange(left, (lo + hi) \div 2 + 1, hi)
                : left \in {NotedRange(S, lo, (lo + hi) \div 2)}}

\* the resident StateMachine after NoteEvent(1) .. NoteEvent(k): the first
\* event finds the session not resident and goes through _restore_session
NotedLive(k) ==
  CHOOSE s \in NotedRange(Restored(NoteRows(1)), 1, k) : TRUE

HistInitCounts == {HISTORY_MAX - 1, HISTORY_MAX, HISTORY_MAX + 1, HISTORY_MAX + 2}

HistInit ==
  /\ sm = StateMachine
  /\ twin = StateMachine
  /\ lastEvent = NoEvent
  /\ raised = FALSE
  /\ nsteps = 0
  /\ \E k \in HistInitCounts :
       /\ objs = <<NotedLive(k)>>
       /\ db = NoteRows(k)
       /\ clock = k
  /\ sessions = [s \in SessionIds |-> IF s = "s1" THEN 1 ELSE 0]
  /\ installed = [s \in SessionIds |-> IF s = "s1" THEN {1} ELSE {}]
  /\ sessionRecs = {"s1"}
  /\ tasks = [t \in TaskIds |-> IdleTask]
  /\ errors = [s \in SessionIds |-> [raised |-> 0, reported |-> 0]]
  /\ polling = {}
  /\ restarts = 0
  /\ ExtIdle

HistNext ==
  \/ \E t \in TaskIds :
       Quiescent /\ ProcessEvent(t, "notification", "s1", EventData, FALSE)
  \/ \E t \in TaskIds : PersistEvent(t, FALSE)
  \/ \E t \in TaskIds : Resolve(t)
  \/ \E t \in TaskIds : RestoreSession(t)
  \/ \E t \in TaskIds : Broadcast(t)
  \/ Restart

SpecHist == HistInit /\ [][HistNext]_vars

\* ------------------------------------------------ the transcript poller
\* TranscriptPoller reads what a subagent appends to its JSONL transcript.
\* The writer appends whole lines, so the read offset is counted in lines.
\* A line is what json.loads makes of it: a record with a type, a message
\* role and the content blocks of the message, or a decoding error.  JSON
\* that decodes to something other than an object (`[1]`, `5`, `null`) has
\* NotADict for its type; an object whose "message" is not an object has
\* NotADict for its role.
MaxLines == 3          \* lines a transcript grows to

ToolUseIds == {"X", "Y"}
BlockToolNames == {"Read", "Task", None}

ToolUseBlock(id, name) ==
  [type |-> "tool_use", id |-> id, name |-> name, text |-> "", is_error |-> FALSE]
ToolResultBlock(id, is_error) ==
  [type |-> "tool_result", id |-> id, name |-> None, text |-> "",
   is_error |-> is_error]
ThinkingBlock(text) ==
  [type |-> "thinking", id |-> "", name |-> None, text |-> text, is_error |-> FALSE]
TextBlock(text) ==
  [type |-> "text", id |-> "", name |-> None, text |-> text, is_error |-> FALSE]

TranscriptRecord(type, role, blocks) ==
  [json |-> TRUE, type |-> type, role |-> role, blocks |-> blocks]
BadJsonLine == [json |-> FALSE, type |-> "", role |-> "", blocks |-> <<>>]
NotADict == "<not a dict>"
NotAnObjectLine == TranscriptRecord(NotADict, "", <<>>)
BadMessageLine == TranscriptRecord("assistant", NotADict, <<>>)

TranscriptLines ==
  {TranscriptRecord("assistant", "assistant", <<ToolUseBlock(id, name)>>)
     : id \in ToolUseIds, name \in BlockToolNames}
  \cup {TranscriptRecord("user", "user", <<ToolResultBlock(id, FALSE)>>)
          : id \in ToolUseIds}
  \cup {TranscriptRecord("assistant", "assistant", <<ThinkingBlock("hm")>>),
        TranscriptRecord("assistant", "assistant", <<TextBlock("ok")>>),
        TranscriptRecord("assistant", "assistant",
          <<ToolUseBlock("X", "Read"), ToolUseBlock("Y", "Read")>>),
        TranscriptRecord("user", "user", <<ToolUseBlock("X", "Read")>>),
        TranscriptRecord("assistant", "assistant",
          <<ToolResultBlock("X", TRUE)>>),
        BadJsonLine, NotAnObjectLine, BadMessageLine}

\* EventData as the poller fills it
TranscriptData ==
  EventData @@ [tool_use_id |-> None, thinking |-> None, summary |-> None]

\* PolledAgent
PolledAgent(agent_id, sid, position) ==
  [agent_id |-> agent_id, session_id |-> sid, file_position |-> position,
   active_tool_ids |-> {}, last_thinking_hash |-> 0, last_text_hash |-> 0]

\* `thinking_text[:200]`, and max_length of the bubble text
HASH_CHARS == 200
max_length == 200

\* two texts that have their first HASH_CHARS characters in common
SharedPrefix ==
  "xxxxxxxxxxxxxxxxxxxxxxxxxxxxxxxxxxxxxxxxxxxxxxxxxxxxxxxxxxxxxxxxxxxxxxxxxxxxxxxxxxxxxxxxxxxxxxxxxxxxxxxxxxxxxxxxxxxxxxxxxxxxxxxxxxxxxxxxxxxxxxxxxxxxxxxxxxxxxxxxxxxxxxxxxxxxxxxxxxxxxxxxxxxxxxxxxxxxxxxx"
LongTextA == SharedPrefix \o "a"
LongTextB == SharedPrefix \o "b"

\* hash(text[:200]): the hash of a text is the number of its prefix among
\* the prefixes of the modelled texts, so that two texts have one hash
\* exactly when their prefixes are equal; no text has hash 0
TextPrefixes == <<"hm", "ok", SharedPrefix>>
HashOf(text) ==
  CHOOSE h \in 1..Len(TextPrefixes) :
    TextPrefixes[h] = FirstChars(text, HASH_CHARS)

\* display_text of _create_thinking_event and _create_text_event (the
\* modelled texts have no newline and no blank at either end)
DisplayText(text) ==
  IF Len(text) > max_length THEN FirstChars(text, max_length - 3) \o "..."
  ELSE text

\* _create_pre_tool_use_event without the test for the delegation tool
CreatePreToolUseEvent_TaskToo(agent, block) ==
  IF ~Truthy(block.name) THEN NoEvent
  ELSE Event("pre_tool_use", agent.session_id, 0,
             [TranscriptData EXCEPT !.agent_id = agent.agent_id,
                                    !.tool_name = block.name,
                                    !.tool_input = ReadInput("a.py"),
                                    !.tool_use_id = block.id])

\* TranscriptPoller._create_pre_tool_use_event (NoEvent: it returns None)
CreatePreToolUseEvent(agent, block) ==
  IF ~Truthy(block.name) THEN NoEvent
  ELSE IF block.name = "Task" THEN NoEvent
  ELSE Event("pre_tool_use", agent.session_id, 0,
             [TranscriptData EXCEPT !.agent_id = agent.agent_id,
                                    !.tool_name = block.name,
                                    !.tool_input = ReadInput("a.py"),
                                    !.tool_use_id = block.id])

\* TranscriptPoller._create_post_tool_use_event
CreatePostToolUseEvent(agent, block) ==
  Event("post_tool_use", agent.session_id, 0,
        [TranscriptData EXCEPT !.agent_id = agent.agent_id,
                               !.tool_use_id = block.id,
                               !.success = IF block.is_error THEN "false"
                                           ELSE "true"])

\* TranscriptPoller._create_thinking_event
CreateThinkingEvent(agent, text) ==
  Event("agent_update", agent.session_id, 0,
        [TranscriptData EXCEPT
           !.agent_id = agent.agent_id, !.thinking = text,
           !.bubble_content = [type |-> "thought", text |-> DisplayText(text),
                               icon |-> "thought", persistent |-> FALSE]])

\* TranscriptPoller._create_text_event
CreateTextEvent(agent, text) ==
  Event("agent_update", agent.session_id, 0,
        [TranscriptData EXCEPT
           !.agent_id = agent.agent_id, !.summary = text,
           !.bubble_content = [type |-> "speech", text |-> DisplayText(text),
                               icon |-> "speech", persistent |-> FALSE]])

\* `tool_use_id in agent.active_tool_ids`
IsActiveTool(agent, tool_use_id) == tool_use_id \in agent.active_tool_ids

\* one content block of an assistant record; acc is the PolledAgent and the
\* list of events of this call of _parse_content
ParseAssistantBlock(acc, block) ==
  LET agent == acc.agent
  IN CASE block.type = "tool_use" ->
            LET event == CreatePreToolUseEvent(agent, block)
            IN IF event.event_type = "none" THEN acc
               ELSE [agent |-> [agent EXCEPT !.active_tool_ids = @ \cup {block.id}],
                     events |-> Append(acc.events, event)]
       [] block.type = "thinking" ->
            IF block.text # "" /\ HashOf(block.text) # agent.last_thinking_hash
            THEN [agent |-> [agent EXCEPT !.last_thinking_hash = HashOf(block.text)],
                  events |-> Append(acc.events,
                                    CreateThinkingEvent(agent, block.text))]
            ELSE acc
       [] block.type = "text" ->
            IF block.text # "" /\ HashOf(block.text) # agent.last_text_hash
            THEN [agent |-> [agent EXCEPT !.last_text_hash = HashOf(block.text)],
                  events |-> Append(acc.events, CreateTextEvent(agent, block.text))]
            ELSE acc
       [] OTHER -> acc

\* one content block of a user record
ParseUserBlock(acc, block) ==
  IF block.type = "tool_result" /\ IsActiveTool(acc.agent, block.id)
  THEN [agent |-> [acc.agent EXCEPT !.active_tool_ids = @ \ {block.id}],
        events |-> Append(acc.events, CreatePostToolUseEvent(acc.agent, block))]
  ELSE acc

RECURSIVE ParseBlocks(_, _, _)
ParseBlocks(acc, record, i) ==
  IF i > Len(record.blocks) THEN acc
  ELSE IF record.type = "assistant" /\ record.role = "assistant"
  THEN ParseBlocks(ParseAssistantBlock(acc, record.blocks[i]), record, i + 1)
  ELSE IF record.type = "user" /\ record.role = "user"
  THEN ParseBlocks(ParseUserBlock(acc, record.blocks[i]), record, i + 1)
  ELSE acc

\* TranscriptPoller._parse_content: the lines of `content` from line i on
RECURSIVE ParseContent(_, _, _)
ParseContent(acc, content, i) ==
  IF i > Len(content) THEN acc
  ELSE IF ~content[i].json THEN ParseContent(acc, content, i + 1)
  ELSE ParseContent(ParseBlocks(acc, content[i], 1), content, i + 1)

\* `record.get(..)` on a record that is not a dict and `message.get(..)` on a
\* message that is not a dict raise AttributeError
LineRaises(record) ==
  record.json /\ (record.type = NotADict \/ record.role = NotADict)

\* index of the first line of content[i..] that raises, 0 when none does
RECURSIVE FirstRaising(_, _)
FirstRaising(content, i) ==
  IF i > Len(content) THEN 0
  ELSE IF LineRaises(content[i]) THEN i
  ELSE FirstRaising(content, i + 1)

\* _read_new_content that leaves file_position where it was
ReadNewContent_NoTell(agent, file) ==
  IF Len(file) <= agent.file_position THEN [agent |-> agent, events |-> <<>>]
  ELSE ParseContent([agent |-> agent, events |-> <<>>],
                    SubSeq(file, agent.file_position + 1, Len(file)), 1)

\* TranscriptPoller._read_new_content
ReadNewContent(agent, file) ==
  IF Len(file) <= agent.file_position THEN [agent |-> agent, events |-> <<>>]
  ELSE ParseContent([agent |-> [agent EXCEPT !.file_position = Len(file)],
                     events |-> <<>>],
                    SubSeq(file, agent.file_position + 1, Len(file)), 1)

\* ------------------------------------------------------------ SpecParse
\* One subagent is polled from start_polling on: the subagent appends lines
\* and the poll loop ticks; every event of a tick goes to the callback.
ReadingTask == [pc |-> "read", elapsed |-> 0, seen |-> "none", result |-> ""]

ParseInit ==
  /\ CoreIdle /\ PollIdle /\ CastIdle /\ FileIdle /\ DeleteIdle /\ TicksIdle
  /\ watch = [k \in {"transcript"} |-> ReadingTask]
  /\ transcript \in {<<>>} \cup {<<l>> : l \in TranscriptLines}
  /\ polledAgent = PolledAgent("a1", "s1", Len(transcript))
  /\ emitted = <<>>
  /\ pollStart = Len(transcript)

\* the subagent writes one more line
AppendLine(line) ==
  /\ Len(transcript) < MaxLines
  /\ transcript' = Append(transcript, line)
  /\ UNCHANGED <<otherThanParse, polledAgent, emitted, pollStart>>

\* One pass of _poll_loop that finds new content.  When a line raises, the
\* exception leaves _parse_content and _read_new_content (which catches
\* OSError only) and ends the loop in `except Exception`: the events of the
\* lines before it are dropped with the list they were in, while
\* file_position and what those lines did to the PolledAgent stay.
PollPass ==
  /\ watch["transcript"].pc = "read"
  /\ Len(transcript) > polledAgent.file_position
  /\ LET position == polledAgent.file_position
         raising == FirstRaising(SubSeq(transcript, position + 1,
                                        Len(transcript)), 1)
         read == ReadNewContent(polledAgent, transcript)
         upto == ReadNewContent(polledAgent,
                                SubSeq(transcript, 1, position + raising - 1))
     IN IF raising = 0
        THEN /\ polledAgent' = read.agent
             /\ emitted' = emitted \o read.events
             /\ watch' = [watch EXCEPT !["transcript"].seen = "activity"]
        ELSE /\ polledAgent' = [upto.agent EXCEPT
                                  !.file_position = Len(transcript)]
             /\ emitted' = emitted
             /\ watch' = [watch EXCEPT !["transcript"] =
                            [@ EXCEPT !.pc = "done", !.seen = "activity",
                                      !.result = "error"]]

PollTick ==
  /\ PollPass
  /\ UNCHANGED <<foldVars, procVars, pollVars, castVars, fileVars, transcript,
                 pollStart, deleted, ticks>>

ParseNext ==
  \/ \E line \in TranscriptLines : AppendLine(line)
  \/ PollTick

SpecParse == ParseInit /\ [][ParseNext]_vars

\* ------------------------------------------------ the pollers' lifecycle
\* TranscriptPoller and TaskFilePoller keep a registry of watched keys under
\* an asyncio.Lock and run one _poll_loop task per key.  Coroutines
\* interleave where they suspend: waiting for the lock, asyncio.sleep, the
\* callback, and stop_polling's await of the cancelled task.  What a pass
\* finds on disk and whether the inactivity timeout has expired are free.
MaxPollTasks == 2      \* _poll_loop tasks created per behaviour

PollKeys == {"a1", "a2"}
CallerIds == {1, 2}
BatchSizes == {0, 1, 2}

\* a caller is idle or inside stop_polling, awaiting the task it cancelled
IdleCaller == [pc |-> "idle", key |-> None, task |-> 0, again |-> "no"]

\* the call that returned last: what it found in the registry, what an
\* earlier stop_polling of the key had found ("no": none since the key was
\* started), whether it raised and what is_polling(key) gives on return
NoCall == [op |-> "none", key |-> None, task |-> 0, found |-> "none",
           again |-> "no", raised |-> FALSE, polling |-> FALSE]

\* asyncio.create_task(self._poll_loop(key)); TaskFilePoller's loop starts
\* with a first _check_for_changes
NewPollTask(kind, key) ==
  [key |-> key, pc |-> IF kind = "transcript" THEN "lock1" ELSE "check",
   must_cancel |-> FALSE, pending |-> 0, result |-> ""]

InRegistry(reg, key) == reg[key] # 0

\* start_polling: `if agent_id in self._agents: return`
AlreadyPolling_Never(reg, key) == FALSE
AlreadyPolling(reg, key) == reg[key] # 0

\* Task.cancel(): the task's next step raises CancelledError
CancelTask(task) ==
  IF task.pc = "done" THEN task ELSE [task EXCEPT !.must_cancel = TRUE]

\* stop_polling: `await agent.poll_task` resumes when the task is done
TaskAwaited_NoWait(task) == TRUE
TaskAwaited(task) == task.pc = "done"

\* _poll_loop: `except Exception` logs and the task returns
PollLoopOutcome_Propagate(exc) == "raised"
PollLoopOutcome(exc) == "returned"

Finished(task, result) == [task EXCEPT !.pc = "done", !.result = result]

CallerFree(c) == callers[c].pc # "await"

\* start_polling(key)
start_polling(c, key) ==
  /\ CallerFree(c)
  /\ pollLock = 0
  /\ IF AlreadyPolling(registry, key)
     THEN /\ lastCall' = [NoCall EXCEPT !.op = "start", !.key = key,
                                         !.found = "present",
                                         !.task = registry[key],
                                         !.polling = TRUE]
          /\ UNCHANGED <<registry, pollTasks, stopped>>
     ELSE /\ Len(pollTasks) < MaxPollTasks
          /\ pollTasks' = Append(pollTasks, NewPollTask(pollerKind, key))
          /\ registry' = [registry EXCEPT ![key] = Len(pollTasks) + 1]
          /\ stopped' = [stopped EXCEPT ![key] = "no"]
          /\ lastCall' = [NoCall EXCEPT !.op = "start", !.key = key,
                                         !.task = Len(pollTasks) + 1,
                                         !.polling = TRUE]
  /\ lastEmit' = None
  /\ UNCHANGED <<otherThanPoll, pollerKind, pollLock, callers>>

\* stop_polling(key), up to its return or to the await of the poll task
stop_polling(c, key) ==
  /\ CallerFree(c)
  /\ pollLock = 0
  /\ LET t == registry[key]
         call == [NoCall EXCEPT !.op = "stop", !.key = key, !.task = t,
                                !.again = stopped[key],
                                !.polling = InRegistry(registry', key)]
     IN /\ registry' = [registry EXCEPT ![key] = 0]
        /\ IF t = 0
           THEN /\ lastCall' = call
                /\ stopped' = [stopped EXCEPT ![key] = "none"]
                /\ UNCHANGED <<pollTasks, pollLock, callers>>
           ELSE IF pollTasks[t].pc = "done"
           THEN /\ lastCall' = [call EXCEPT
                                  !.found = "finished",
                                  !.raised = pollTasks[t].result = "raised"]
                /\ stopped' = [stopped EXCEPT ![key] = "finished"]
                /\ UNCHANGED <<pollTasks, pollLock, callers>>
           ELSE /\ pollTasks' = [pollTasks EXCEPT ![t] = CancelTask(@)]
                /\ pollLock' = c
                /\ callers' = [callers EXCEPT ![c] =
                                 [pc |-> "await", key |-> key, task |-> t,
                                  again |-> stopped[key]]]
                /\ UNCHANGED <<stopped, lastCall>>
  /\ lastEmit' = None
  /\ UNCHANGED <<otherThanPoll, pollerKind>>

\* stop_polling resumes from `await agent.poll_task` and returns
StopReturns(c) ==
  /\ callers[c].pc = "await"
  /\ TaskAwaited(pollTasks[callers[c].task])
  /\ pollLock' = 0
  /\ callers' = [callers EXCEPT ![c] = IdleCaller]
  /\ lastCall' = [NoCall EXCEPT
                    !.op = "stop", !.key = callers[c].key,
                    !.task = callers[c].task, !.found = "running",
                    !.again = callers[c].again,
                    !.raised = pollTasks[callers[c].task].result = "raised",
                    !.polling = InRegistry(registry, callers[c].key)]
  /\ stopped' = [stopped EXCEPT ![callers[c].key] = "running"]
  /\ lastEmit' = None
  /\ UNCHANGED <<otherThanPoll, pollerKind, registry, pollTasks>>

\* stop_all()
stop_all(c) ==
  /\ CallerFree(c)
  /\ pollLock = 0
  /\ pollTasks' = [t \in 1..Len(pollTasks) |->
                     IF \E key \in PollKeys : registry[key] = t
                     THEN CancelTask(pollTasks[t]) ELSE pollTasks[t]]
  /\ registry' = [key \in PollKeys |-> 0]
  /\ lastCall' = [NoCall EXCEPT !.op = "stop_all"]
  /\ lastEmit' = None
  /\ UNCHANGED <<otherThanPoll, pollerKind, pollLock, callers,
                 stopped>>

PollTaskIds == 1..Len(pollTasks)
Runs(t, pc) == pollTasks[t].pc = pc /\ ~pollTasks[t].must_cancel

\* a cancelled task is resumed: CancelledError is logged and re-raised
Cancelled(t) ==
  /\ pollTasks[t].pc # "done"
  /\ pollTasks[t].must_cancel
  /\ pollTasks' = [pollTasks EXCEPT ![t] = Finished(@, "cancelled")]
  /\ lastEmit' = None
  /\ UNCHANGED <<otherThanPoll, pollerKind, registry, pollLock,
                 callers, stopped, lastCall>>

\* _poll_loop: the registry and inactivity check at the top of a pass
CheckRegistry(t, timeout) ==
  /\ Runs(t, "lock1")
  /\ pollLock = 0
  /\ pollTasks' = [pollTasks EXCEPT ![t] =
       IF ~InRegistry(registry, @.key) \/ timeout
       THEN Finished(@, "returned") ELSE [@ EXCEPT !.pc = "sleep"]]
  /\ lastEmit' = None
  /\ UNCHANGED <<otherThanPoll, pollerKind, registry, pollLock,
                 callers, stopped, lastCall>>

\* asyncio.sleep(POLL_INTERVAL_SECONDS) is over
Wake(t) ==
  /\ Runs(t, "sleep")
  /\ pollTasks' = [pollTasks EXCEPT ![t].pc =
       IF pollerKind = "transcript" THEN "lock2" ELSE "check"]
  /\ lastEmit' = None
  /\ UNCHANGED <<otherThanPoll, pollerKind, registry, pollLock,
                 callers, stopped, lastCall>>

\* TranscriptPoller._poll_loop after the sleep: the second registry check,
\* _read_new_content (n events, or an exception that is not an OSError) and
\* the call of the callback for the first event
ReadTranscript(t, n, exc) ==
  /\ pollerKind = "transcript"
  /\ Runs(t, "lock2")
  /\ pollLock = 0
  /\ LET task == pollTasks[t]
         emits == InRegistry(registry, task.key) /\ ~exc /\ n > 0
     IN /\ pollTasks' = [pollTasks EXCEPT ![t] =
             IF ~InRegistry(registry, task.key) THEN Finished(task, "returned")
             ELSE IF exc THEN Finished(task, PollLoopOutcome(exc))
             ELSE IF n = 0 THEN [task EXCEPT !.pc = "lock1"]
             ELSE [task EXCEPT !.pc = "callback", !.pending = n - 1]]
        /\ lastEmit' = IF emits THEN task.key ELSE None
  /\ UNCHANGED <<otherThanPoll, pollerKind, registry, pollLock,
                 callers, stopped, lastCall>>

\* TaskFilePoller._check_for_changes up to the call of the todo callback
CheckForChanges(t, changed, exc) ==
  /\ pollerKind = "task_file"
  /\ Runs(t, "check")
  /\ pollLock = 0
  /\ LET task == pollTasks[t]
         emits == InRegistry(registry, task.key) /\ ~exc /\ changed
     IN /\ pollTasks' = [pollTasks EXCEPT ![t] =
             IF ~InRegistry(registry, task.key) THEN [task EXCEPT !.pc = "lock1"]
             ELSE IF exc THEN Finished(task, PollLoopOutcome(exc))
             ELSE IF changed THEN [task EXCEPT !.pc = "callback"]
             ELSE [task EXCEPT !.pc = "lock1"]]
        /\ lastEmit' = IF emits THEN task.key ELSE None
  /\ UNCHANGED <<otherThanPoll, pollerKind, registry, pollLock,
                 callers, stopped, lastCall>>

\* the callback returns (or raises an Exception, which is logged): the next
\* event of the pass is handed over, or the pass is over
CallbackReturns(t) ==
  /\ Runs(t, "callback")
  /\ LET task == pollTasks[t]
     IN /\ pollTasks' = [pollTasks EXCEPT ![t] =
             IF task.pending > 0 THEN [task EXCEPT !.pending = @ - 1]
             ELSE [task EXCEPT !.pc = "lock1"]]
        /\ lastEmit' = IF task.pending > 0 THEN task.key ELSE None
  /\ UNCHANGED <<otherThanPoll, pollerKind, registry, pollLock,
                 callers, stopped, lastCall>>

\* ------------------------------------------------------------- SpecPoll
PollInit ==
  /\ CoreIdle /\ ParseIdle /\ CastIdle /\ FileIdle /\ RestIdle
  /\ pollerKind \in {"transcript", "task_file"}
  /\ registry = [key \in PollKeys |-> 0]
  /\ pollLock = 0
  /\ pollTasks = <<>>
  /\ callers = [c \in CallerIds |-> IdleCaller]
  /\ stopped = [key \in PollKeys |-> "no"]
  /\ lastCall = NoCall
  /\ lastEmit = None

PollNext ==
  \/ \E c \in CallerIds : \E key \in PollKeys : start_polling(c, key)
  \/ \E c \in CallerIds : \E key \in PollKeys : stop_polling(c, key)
  \/ \E c \in CallerIds : StopReturns(c)
  \/ \E c \in CallerIds : stop_all(c)
  \/ \E t \in PollTaskIds : Cancelled(t)
  \/ \E t \in PollTaskIds : \E timeout \in BOOLEAN : CheckRegistry(t, timeout)
  \/ \E t \in PollTaskIds : Wake(t)
  \/ \E t \in PollTaskIds : \E n \in BatchSizes : \E exc \in BOOLEAN :
       ReadTranscript(t, n, exc)
  \/ \E t \in PollTaskIds : \E changed, exc \in BOOLEAN :
       CheckForChanges(t, changed, exc)
  \/ \E t \in PollTaskIds : CallbackReturns(t)

SpecPoll == PollInit /\ [][PollNext]_vars

\* The event loop resumes every coroutine that is ready: a cancelled poll
\* task gets its CancelledError and a stop_polling whose awaited task is
\* done goes on.
SpecPollFair ==
  /\ PollInit
  /\ [][PollNext]_vars
  /\ \A t \in 1..MaxPollTasks : WF_vars(t \in PollTaskIds /\ Cancelled(t))
  /\ \A c \in CallerIds : WF_vars(StopReturns(c))

\* ------------------------------------------------ the connection manager
\* ConnectionManager keeps the WebSockets of each session in a list.  Its
\* lock is never held across a suspension, so the locked sections are
\* atomic.  The endpoint registers each WebSocket once, after accepting it,
\* and calls disconnect when the peer is gone.  A send to a peer that has
\* vanished raises; a closed WebSocket is no longer CONNECTED.
WsIds == {"w1", "w2"}
CastIds == {1, 2}

IdleCast == [pc |-> "idle", all |-> FALSE, session_id |-> None,
             connections |-> <<>>, i |-> 1, failed_connections |-> <<>>,
             raisedOn |-> {}, raised |-> FALSE]

\* ConnectionManager.connect
connect(ws, sid) ==
  /\ wsState[ws] = "new"
  /\ wsState' = [wsState EXCEPT ![ws] = "connected"]
  /\ active_connections' = [active_connections EXCEPT ![sid] = Append(@, ws)]
  /\ UNCHANGED <<otherThanCast, casts, received>>

\* the peer vanishes, or the WebSocket is closed
PeerGone(ws, how) ==
  /\ wsState[ws] = "connected"
  /\ wsState' = [wsState EXCEPT ![ws] = how]
  /\ UNCHANGED <<otherThanCast, active_connections, casts, received>>

\* ConnectionManager.disconnect, called by the endpoint on WebSocketDisconnect
disconnect(ws, sid) ==
  /\ wsState[ws] \in {"broken", "disconnected"}
  /\ InSeq(active_connections[sid], ws)
  /\ active_connections' =
       [active_connections EXCEPT ![sid] = RemoveFirst(@, ws)]
  /\ UNCHANGED <<otherThanCast, wsState, casts, received>>

\* the (session_id, connection) pairs of all sessions, in dict order
AllConnections ==
  [k \in 1..Len(active_connections["s1"]) |-> <<"s1", active_connections["s1"][k]>>]
  \o [k \in 1..Len(active_connections["s2"]) |-> <<"s2", active_connections["s2"][k]>>]

\* broadcast / broadcast_all up to the first send: the copy of the list
StartCast(c, all, sid) ==
  /\ casts[c].pc \in {"idle", "done"}
  /\ LET connections ==
           IF all THEN AllConnections
           ELSE [k \in 1..Len(active_connections[sid]) |->
                   <<sid, active_connections[sid][k]>>]
     IN casts' = [casts EXCEPT ![c] = [IdleCast EXCEPT
                    !.pc = IF connections = <<>> THEN "done" ELSE "sending",
                    !.all = all, !.session_id = IF all THEN None ELSE sid,
                    !.connections = connections]]
  /\ received' = [received EXCEPT ![c] = [ws \in WsIds |-> 0]]
  /\ UNCHANGED <<otherThanCast, active_connections, wsState>>

\* `except Exception`: the connection is noted and the loop goes on
OnSendError_Reraise(cast, conn) == [cast EXCEPT !.raised = TRUE, !.pc = "done"]
OnSendError(cast, conn) ==
  [cast EXCEPT !.failed_connections = Append(@, conn)]

\* one round of the send loop
Send(c) ==
  /\ casts[c].pc = "sending"
  /\ LET cast == casts[c]
         conn == cast.connections[cast.i]
         state == wsState[conn[2]]
         tried == IF state = "broken"
                  THEN OnSendError([cast EXCEPT !.raisedOn = @ \cup {conn[2]}], conn)
                  ELSE cast
         next == IF tried.pc # "sending" THEN tried
                 ELSE IF cast.i < Len(cast.connections)
                 THEN [tried EXCEPT !.i = @ + 1]
                 ELSE [tried EXCEPT !.pc = IF tried.failed_connections = <<>>
                                           THEN "done" ELSE "cleanup"]
     IN /\ casts' = [casts EXCEPT ![c] = next]
        /\ received' = IF state = "connected"
                       THEN [received EXCEPT ![c][conn[2]] = @ + 1]
                       ELSE received
  /\ UNCHANGED <<otherThanCast, active_connections, wsState>>

\* the failed connections leave the lists they are still in
RECURSIVE RemoveFailed(_, _, _)
RemoveFailed_Keep(conns, failed, i) == conns
RemoveFailed(conns, failed, i) ==
  IF i > Len(failed) THEN conns
  ELSE RemoveFailed([conns EXCEPT ![failed[i][1]] = RemoveFirst(@, failed[i][2])],
                    failed, i + 1)

Cleanup(c) ==
  /\ casts[c].pc = "cleanup"
  /\ active_connections' =
       RemoveFailed(active_connections, casts[c].failed_connections, 1)
  /\ casts' = [casts EXCEPT ![c].pc = "done"]
  /\ UNCHANGED <<otherThanCast, wsState, received>>

\* ------------------------------------------------------------- SpecCast
CastInit ==
  /\ CoreIdle /\ ParseIdle /\ PollIdle /\ FileIdle /\ RestIdle
  /\ active_connections = [sid \in SessionIds |-> <<>>]
  /\ wsState = [ws \in WsIds |-> "new"]
  /\ casts = [c \in CastIds |-> IdleCast]
  /\ received = [c \in CastIds |-> [ws \in WsIds |-> 0]]

CastNext ==
  \/ \E ws \in WsIds : \E sid \in SessionIds : connect(ws, sid)
  \/ \E ws \in WsIds : \E how \in {"broken", "disconnected"} : PeerGone(ws, how)
  \/ \E ws \in WsIds : \E sid \in SessionIds : disconnect(ws, sid)
  \/ \E c \in CastIds : \E all \in BOOLEAN : \E sid \in SessionIds :
       StartCast(c, all, sid)
  \/ \E c \in CastIds : Send(c)
  \/ \E c \in CastIds : Cleanup(c)

SpecCast == CastInit /\ [][CastNext]_vars

\* ------------------------------------------------------------ SpecLife
\* One agent's life in a new session: SessionStart, SubagentStart{a},
\* SubagentStop{a, success}, Cleanup{a}, each event entering process_event
\* when the one before it has been processed to its end.
LifeOrder == <<"session_start", "subagent_start", "subagent_stop", "cleanup">>
LifeLength == Len(LifeOrder)
LifeAgentIds == {"a1", "a2"}

\* the events the scenario can send as its k-th
LifeEvents(k) ==
  CASE k = 0 -> {<<"session_start", EventData>>}
    [] k = 1 -> {<<"subagent_start",
                   [EventData EXCEPT !.agent_id = a, !.task_description = desc,
                                     !.agent_transcript_path = path]>> :
                   <<a, desc, path>> \in
                     LifeAgentIds \X {None, "misc", "review code"}
                                  \X {None, "t"}}
    [] k = 2 -> {<<"subagent_stop",
                   [EventData EXCEPT !.agent_id = lastEvent.data.agent_id,
                                     !.success = "true",
                                     !.agent_transcript_path = path]>> :
                   path \in {None, "t"}}
    [] OTHER -> {<<"cleanup",
                   [EventData EXCEPT !.agent_id = lastEvent.data.agent_id]>>}

LifeEvent(t) ==
  /\ Quiescent
  /\ nsteps < LifeLength
  /\ \E e \in LifeEvents(nsteps) : Submit(t, e[1], "s1", e[2], FALSE)

LifeInit == CoreIdle /\ ExtIdle

LifeNext ==
  \/ \E t \in TaskIds : LifeEvent(t)
  \/ \E t \in TaskIds : PersistEvent(t, FALSE)
  \/ \E t \in TaskIds : Resolve(t)
  \/ \E t \in TaskIds : RestoreSession(t)
  \/ \E t \in TaskIds : Enrich(t)
  \/ \E t \in TaskIds : Broadcast(t)
  \/ \E t \in TaskIds : FollowUp(t)

SpecLife == LifeInit /\ [][LifeNext]_vars

\* ------------------------------------------------------------ SpecPath
\* PreToolUse events of the Read tool folded into a StateMachine, for file
\* paths around the 35-character display budget and several home
\* directories.
ExamplePath == "/home/user/deep/nested/path/file.py"
LongPaths ==
  {ExamplePath,
   "/home/user/deep/nested/paths/file.py",
   "/home/user/projects/deep/nested/path/file.py",
   "/srv/file.py"}
Homes == {HOME, "/home/user", "/home"}
PathActors == {None, "main", "a1", "a2"}

PathInit ==
  /\ sm \in {Spawned(k) : k \in 0..1}
  /\ twin = StateMachine
  /\ lastEvent = NoEvent
  /\ raised = FALSE
  /\ nsteps = 0
  /\ home \in Homes
  /\ ProcIdle /\ ParseIdle /\ PollIdle /\ CastIdle /\ TaskFilesIdle /\ RestIdle

ReadsPath(path, agent_id) ==
  LET event == Event("pre_tool_use", "s1", nsteps + 1,
                     [EventData EXCEPT !.tool_name = "Read",
                                       !.tool_input = ReadInput(path),
                                       !.agent_id = agent_id])
  IN /\ nsteps < MaxFoldSteps
     /\ \E env \in EnvsFor(sm, event) :
          sm' = Transition(sm, event, [env EXCEPT !.home = home])
     /\ lastEvent' = event
     /\ nsteps' = nsteps + 1
     /\ UNCHANGED <<twin, raised, procVars, parseVars, pollVars, castVars,
                    fileVars, restVars>>

PathNext == \E path \in LongPaths : \E a \in PathActors : ReadsPath(path, a)

SpecPath == PathInit /\ [][PathNext]_vars

\* ---------------------------------------------------------- SpecRestore
\* The server starts on a database that holds a log of session s1 written
\* by an earlier run; some rows cannot be converted back into events.  The
\* first event for s1 then restores the session.
MaxLogRows == 2

\* rows a log can open with and continue with: after a SessionStart of a
\* known session the log holds no earlier row (_persist_event)
LogRowKinds ==
  {<<"post_tool_use", EventData>>,
   <<"subagent_start", [EventData EXCEPT !.agent_id = "a1",
                                         !.task_description = "misc"]>>,
   <<"retired_type", EventData>>,
   <<"pre_tool_use", [EventData EXCEPT !.tool_name = NotAString]>>}
LogHeadKinds == LogRowKinds \cup {<<"session_start", EventData>>}

\* producer timestamps of the rows in append order: ascending, or with the
\* second row stamped before the first (it arrived late)
LogStamps == {<<2, 4, 6, 8>>, <<4, 2, 6, 8>>}

InitLogs ==
  {<<>>} \cup
  UNION {{[i \in 1..n |-> Event(kinds[i][1], "s1", stamps[i], kinds[i][2])]
            : kinds \in {k \in [1..n -> LogHeadKinds] :
                           \A i \in 2..n : k[i] \in LogRowKinds},
              stamps \in LogStamps}
         : n \in 1..MaxLogRows}

RestoreInit ==
  /\ sm = StateMachine
  /\ twin = StateMachine
  /\ lastEvent = NoEvent
  /\ raised = FALSE
  /\ nsteps = 0
  /\ db \in InitLogs
  /\ sessionRecs = IF db = <<>> THEN {} ELSE {"s1"}
  /\ clock = 2 * MaxLogRows
  /\ sessions = [s \in SessionIds |-> 0]
  /\ objs = <<>>
  /\ tasks = [t \in TaskIds |-> IdleTask]
  /\ errors = [s \in SessionIds |-> [raised |-> 0, reported |-> 0]]
  /\ polling = {}
  /\ installed = [s \in SessionIds |-> {}]
  /\ restarts = 0
  /\ ExtIdle

RestoreNext ==
  \/ \E t \in TaskIds : \E e \in ProcEvents :
       Quiescent /\ ProcessEvent(t, e[1], "s1", e[2], FALSE)
  \/ \E t \in TaskIds : PersistEvent(t, FALSE)
  \/ \E t \in TaskIds : Resolve(t)
  \/ \E t \in TaskIds : RestoreSession(t)
  \/ \E t \in TaskIds : Enrich(t)
  \/ \E t \in TaskIds : Broadcast(t)
  \/ \E t \in TaskIds : FollowUp(t)

SpecRestore == RestoreInit /\ [][RestoreNext]_vars

\* ----------------------------------------------------------- SpecFiles
\* TaskFilePoller._check_for_changes for one polled session, while the task
\* files of the session are written and removed between the ticks.
MaxMtime == 2
TaskFileNames == {"2.json", "10.json", "x.json"}
NoFiles == <<>>

\* the JSON object each task file holds
TaskData(name) ==
  CASE name = "2.json" ->
         [id |-> "2", subject |-> "second", status |-> "pending"]
    [] name = "10.json" ->
         [id |-> "10", subject |-> "tenth", status |-> "in_progress"]
    [] name = "b.json" ->
         [id |-> "b", subject |-> "branch", status |-> "completed"]
    [] name = "3.json" -> [id |-> "3", subject |-> "", status |-> "pending"]
    [] name = "07.json" ->
         [id |-> "07", subject |-> "seventh", status |-> "pending"]
    [] name = "7.json" ->
         [id |-> "7", subject |-> "seven", status |-> "pending"]
    [] name = "-2.json" ->
         [id |-> "-2", subject |-> "minus two", status |-> "pending"]
    [] name = "-5.json" ->
         [id |-> "-5", subject |-> "minus five", status |-> "pending"]
    [] name = "9999999999.json" ->
         [id |-> "9999999999", subject |-> "ten nines", status |-> "pending"]
    [] name = "10000000000.json" ->
         [id |-> "10000000000", subject |-> "ten zeros", status |-> "pending"]
    [] OTHER -> [id |-> "x", subject |-> "extra", status |-> "blocked"]

\* TaskFilePoller._convert_task_to_todo
ConvertTaskToTodo(task) ==
  [content |-> task.subject,
   status |-> IF task.status \in {"pending", "in_progress", "completed"}
              THEN task.status ELSE "pending"]

\* the characters of the modelled ids, in code point order
CharOrder == "+-0123456789abcdefghijklmnopqrstuvwxyz"
CharAt(s, i) == SubSeq(s, i, i)
CodePoint(c) == CHOOSE k \in 1..Len(CharOrder) : CharAt(CharOrder, k) = c
IsDigit(c) == \E k \in 3..12 : CharAt(CharOrder, k) = c

\* `a < b` of two str
RECURSIVE StrLess(_, _)
StrLess(a, b) ==
  IF b = "" THEN FALSE
  ELSE IF a = "" THEN TRUE
  ELSE IF CharAt(a, 1) # CharAt(b, 1)
  THEN CodePoint(CharAt(a, 1)) < CodePoint(CharAt(b, 1))
  ELSE StrLess(DropChars(a, 1), DropChars(b, 1))

\* int(task_id) does not raise ValueError: decimal digits after an optional
\* sign (the modelled ids hold no blank, underscore or non-ASCII digit)
IsDigits(s) == s # "" /\ \A i \in 1..Len(s) : IsDigit(CharAt(s, i))
IsIntLiteral(s) ==
  \/ IsDigits(s)
  \/ Len(s) > 1 /\ CharAt(s, 1) \in {"+", "-"} /\ IsDigits(DropChars(s, 1))

RECURSIVE StripZeros(_)
StripZeros(digits) ==
  IF Len(digits) > 1 /\ CharAt(digits, 1) = "0"
  THEN StripZeros(DropChars(digits, 1))
  ELSE digits

\* str(int(task_id)): the decimal numeral of the integer
IntNumeral(s) ==
  LET signed == CharAt(s, 1) \in {"+", "-"}
      magnitude == StripZeros(IF signed THEN DropChars(s, 1) ELSE s)
  IN IF CharAt(s, 1) = "-" /\ magnitude # "0" THEN "-" \o magnitude
     ELSE magnitude

\* str.zfill(width): zeros after the sign up to the width, nothing cut
ZFILL_WIDTH == 10
RECURSIVE ZFill(_, _)
ZFill(s, width) ==
  IF Len(s) >= width THEN s
  ELSE IF CharAt(s, 1) = "-"
  THEN "-" \o ZFill("0" \o DropChars(s, 1), width - 1)
  ELSE ZFill("0" \o s, width)

\* sort_key of _read_task_files: (0, zero-padded numeral) or (1, id)
SortKey(task) ==
  IF IsIntLiteral(task.id)
  THEN <<0, ZFill(IntNumeral(task.id), ZFILL_WIDTH)>>
  ELSE <<1, task.id>>
KeyBefore(a, b) == a[1] < b[1] \/ (a[1] = b[1] /\ StrLess(a[2], b[2]))

\* tasks.sort(key=sort_key): a stable sort of the tasks in the order read
RECURSIVE InsertTask(_, _)
InsertTask(sorted, task) ==
  IF sorted = <<>> THEN <<task>>
  ELSE IF KeyBefore(SortKey(task), SortKey(Head(sorted)))
  THEN <<task>> \o sorted
  ELSE <<Head(sorted)>> \o InsertTask(Tail(sorted), task)

RECURSIVE SortList(_)
SortList(read) ==
  IF read = <<>> THEN <<>>
  ELSE InsertTask(SortList(SubSeq(read, 1, Len(read) - 1)), read[Len(read)])

\* the orders in which glob("*.json") can list a set of files
Listings(names) ==
  {l \in [1..Cardinality(names) -> names] :
     \A i, j \in 1..Cardinality(names) : l[i] = l[j] => i = j}

\* _read_task_files over the files in the order listed
ReadTaskList(listing) ==
  LET tasks_ == SelectSeq(SortList([i \in 1..Len(listing) |->
                                      TaskData(listing[i])]),
                          LAMBDA task : task.subject # "")
  IN [i \in 1..Len(tasks_) |-> ConvertTaskToTodo(tasks_[i])]

\* TaskFilePoller._read_task_files, the files listed in some order
ReadTaskFiles(names) ==
  ReadTaskList(CHOOSE listing \in Listings(names) : TRUE)

\* what glob("*.json") and stat() give: file name -> st_mtime
Visible(dir) == IF dir.exists THEN dir.files ELSE NoFiles

NoTick == [ran |-> FALSE, before |-> NoFiles, seen |-> NoFiles, calls |-> 0,
           todos |-> <<>>]

FilesInit ==
  /\ CoreIdle /\ ParseIdle /\ PollIdle /\ CastIdle /\ HomeIdle /\ RestIdle
  /\ taskDir \in {[exists |-> FALSE, files |-> NoFiles],
                  [exists |-> TRUE, files |-> NoFiles]}
  /\ last_modified = NoFiles
  /\ tick = NoTick

otherThanFiles ==
  <<foldVars, procVars, parseVars, pollVars, castVars, home, restVars>>

\* a task file is created or rewritten
WriteTaskFile(name, mtime) ==
  /\ name \in DOMAIN taskDir.files => taskDir.files[name] # mtime
  /\ taskDir' = [exists |-> TRUE,
                 files |-> [n \in DOMAIN taskDir.files \cup {name} |->
                              IF n = name THEN mtime ELSE taskDir.files[n]]]
  /\ UNCHANGED <<otherThanFiles, last_modified, tick>>

\* a task file is removed
RemoveTaskFile(name) ==
  /\ name \in DOMAIN taskDir.files
  /\ taskDir' = [taskDir EXCEPT
                   !.files = [n \in DOMAIN taskDir.files \ {name} |->
                                taskDir.files[n]]]
  /\ UNCHANGED <<otherThanFiles, last_modified, tick>>

\* the task directory is removed with what it holds
RemoveTaskDir ==
  /\ taskDir.exists
  /\ taskDir' = [exists |-> FALSE, files |-> NoFiles]
  /\ UNCHANGED <<otherThanFiles, last_modified, tick>>

\* has_changes of _check_for_changes, FALSE where it returns early
HasChanges(dir, known) ==
  LET current_mtime == dir.files
  IN /\ dir.exists
     /\ DOMAIN dir.files # {}
     /\ \/ \E k \in DOMAIN current_mtime :
             k \notin DOMAIN known \/ known[k] # current_mtime[k]
        \/ DOMAIN known # DOMAIN current_mtime

\* one tick: TaskFilePoller._check_for_changes; an exception of the todo
\* callback is logged and changes nothing
TaskFilesTick ==
  LET has_changes == HasChanges(taskDir, last_modified)
  IN /\ last_modified' = IF has_changes THEN taskDir.files ELSE last_modified
     /\ tick' = [ran |-> TRUE, before |-> tick.seen, seen |-> Visible(taskDir),
                 calls |-> IF has_changes THEN 1 ELSE 0,
                 todos |-> IF has_changes
                           THEN ReadTaskFiles(DOMAIN taskDir.files) ELSE <<>>]
     /\ UNCHANGED <<otherThanFiles, taskDir>>

FilesNext ==
  \/ \E name \in TaskFileNames : \E mtime \in 1..MaxMtime :
       WriteTaskFile(name, mtime)
  \/ \E name \in TaskFileNames : RemoveTaskFile(name)
  \/ RemoveTaskDir
  \/ TaskFilesTick

SpecFiles == FilesInit /\ [][FilesNext]_vars

\* ----------------------------------------------------------- SpecWatch
\* The two _poll_loop tasks, one of each poller, left to themselves: no
\* stop call is made.  Time is counted in poll intervals; INACTIVITY_TICKS
\* stands for INACTIVITY_TIMEOUT / POLL_INTERVAL_SECONDS (600 and 1800 in
\* the program), and `elapsed` is now - last_activity, kept up to
\* INACTIVITY_TICKS + 1.
INACTIVITY_TICKS == 2
WatchKinds == {"transcript", "task_file"}

\* what a pass finds: nothing new, new content or changed files, or new
\* content whose handling raises an Exception that is not an OSError
WatchFindings == {"nothing", "activity", "unreadable"}

\* PolledAgent / TaskFileState at start_polling: last_activity is now;
\* TaskFilePoller's loop starts with a first _check_for_changes
NewWatch(kind) ==
  [pc |-> IF kind = "transcript" THEN "lock1" ELSE "read",
   elapsed |-> 0, seen |-> "none", result |-> ""]

\* `datetime.now(UTC) - last_activity > INACTIVITY_TIMEOUT`
TimedOut(w) == w.elapsed > INACTIVITY_TICKS

WatchInit ==
  /\ CoreIdle /\ ParseIdle /\ PollIdle /\ CastIdle /\ FileIdle /\ DeleteIdle
  /\ TicksIdle
  /\ watch = [k \in WatchKinds |-> NewWatch(k)]

otherThanWatch == <<foldVars, procVars, parseVars, pollVars, castVars, fileVars,
                    deleted, ticks>>

\* _poll_loop: the inactivity check at the top of a pass
WatchCheck(k) ==
  /\ watch[k].pc = "lock1"
  /\ watch' = [watch EXCEPT ![k] =
       IF TimedOut(@) THEN [@ EXCEPT !.pc = "done", !.result = "timeout"]
       ELSE [@ EXCEPT !.pc = "sleep"]]
  /\ UNCHANGED otherThanWatch

\* asyncio.sleep(POLL_INTERVAL_SECONDS): one interval passes
WatchSleep(k) ==
  /\ watch[k].pc = "sleep"
  /\ watch' = [watch EXCEPT
       ![k].pc = "read",
       ![k].elapsed = IF @ > INACTIVITY_TICKS THEN @ ELSE @ + 1]
  /\ UNCHANGED otherThanWatch

\* _read_new_content / _check_for_changes and the callbacks: activity sets
\* last_activity before the content is parsed or the files are read, and an
\* Exception raised there ends the loop (`except Exception`)
WatchRead(k, found) ==
  /\ watch[k].pc = "read"
  /\ watch' = [watch EXCEPT ![k] =
       CASE found = "nothing" -> [@ EXCEPT !.pc = "lock1", !.seen = "nothing"]
         [] found = "activity" ->
              [@ EXCEPT !.pc = "lock1", !.seen = "activity", !.elapsed = 0]
         [] OTHER ->
              [@ EXCEPT !.pc = "done", !.seen = "activity", !.elapsed = 0,
                        !.result = "error"]]
  /\ UNCHANGED otherThanWatch

WatchStep(k) ==
  \/ WatchCheck(k)
  \/ WatchSleep(k)
  \/ \E found \in WatchFindings : WatchRead(k, found)

WatchNext == \E k \in WatchKinds : WatchStep(k)

SpecWatch == WatchInit /\ [][WatchNext]_vars

\* the event loop resumes every poll task that is ready
SpecWatchFair ==
  /\ WatchInit
  /\ [][WatchNext]_vars
  /\ \A k \in WatchKinds : WF_vars(WatchStep(k))

\* ------------------------------------------------------------- SpecDel
\* Sessions are deleted through the API while the processor handles events
\* and polled transcripts: POSTs and poll loops as in SpecProc, except that
\* one session has a producer and that it submits no event after the
\* session has been deleted.
DelSessions == {"s1"}

\* DELETE /sessions/{session_id}: the rows of the session are deleted and
\* committed, then remove_session pops the resident state machine; 404 for
\* a session without a SessionRecord.  No poller is stopped and no
\* process_event task is waited for.
delete_session(sid) ==
  /\ sid \in sessionRecs
  /\ sid \notin deleted
  /\ db' = SelectSeq(db, LAMBDA r : r.session_id # sid)
  /\ sessionRecs' = sessionRecs \ {sid}
  /\ sessions' = [sessions EXCEPT ![sid] = 0]
  /\ deleted' = deleted \cup {sid}
  /\ UNCHANGED <<foldVars, objs, tasks, errors, polling, installed, restarts,
                 clock, parseVars, pollVars, castVars, fileVars, watch,
                 ticks>>

\* DELETE /sessions: every row is deleted, then clear_all_sessions
clear_database ==
  /\ deleted # SessionIds
  /\ db' = <<>>
  /\ sessionRecs' = {}
  /\ sessions' = [s \in SessionIds |-> 0]
  /\ deleted' = SessionIds
  /\ UNCHANGED <<foldVars, objs, tasks, errors, polling, installed, restarts,
                 clock, parseVars, pollVars, castVars, fileVars, watch,
                 ticks>>

DelNext ==
  \/ \E t \in TaskIds : \E e \in ProcEvents : \E sid \in DelSessions \ deleted :
       ProcessEvent(t, e[1], sid, e[2], FALSE)
  \/ \E t \in TaskIds : \E p \in polling : \E e \in PolledEvents(p.agent_id) :
       HandlePolledEvent(t, p, e)
  \/ \E t \in TaskIds : PersistEvent(t, FALSE)
  \/ \E t \in TaskIds : Resolve(t)
  \/ \E t \in TaskIds : RestoreSession(t)
  \/ \E t \in TaskIds : Enrich(t)
  \/ \E t \in TaskIds : Broadcast(t)
  \/ \E t \in TaskIds : FollowUp(t)
  \/ \E sid \in SessionIds : delete_session(sid)
  \/ clear_database

SpecDel == SeqInit /\ [][DelNext]_vars

\* ----------------------------------------------------------- SpecCount
\* One subagent from its start to its stop: it appends tool_use and
\* tool_result records to its transcript, the poll loop hands what it
\* synthesizes to the processor, which folds it, and the SubagentStop names
\* the transcript.
CountLines ==
  {TranscriptRecord("assistant", "assistant", <<ToolUseBlock(id, name)>>)
     : id \in ToolUseIds, name \in {"Read", "Task"}}
  \cup {TranscriptRecord("user", "user", <<ToolResultBlock(id, FALSE)>>)
          : id \in ToolUseIds}

\* StateMachine._count_tool_uses_from_jsonl: the occurrences of
\* "type":"tool_use" in the file, one per tool_use block
RECURSIVE CountToolUses(_)
CountToolUses(file) ==
  IF file = <<>> THEN 0
  ELSE Cardinality({i \in 1..Len(Head(file).blocks) :
                      Head(file).blocks[i].type = "tool_use"})
       + CountToolUses(Tail(file))

\* the callback of the poll loop: _handle_polled_event for each event in turn
RECURSIVE FoldPolled(_, _)
FoldPolled(s, events) ==
  IF events = <<>> THEN s
  ELSE FoldPolled(IF TransitionRaises(s, Head(events)) THEN s
                  ELSE Transition(s, Head(events), Env0),
                  Tail(events))

Stopped == lastEvent.event_type = "subagent_stop"

CountInit ==
  /\ sm = Spawned(1)
  /\ twin = StateMachine
  /\ lastEvent = NoEvent
  /\ raised = FALSE
  /\ nsteps = 0
  /\ ProcIdle /\ PollIdle /\ CastIdle /\ FileIdle /\ RestIdle
  /\ transcript = <<>>
  /\ polledAgent = PolledAgent("a1", "s1", 0)
  /\ emitted = <<>>
  /\ pollStart = 0

\* the subagent performs a tool use or receives its result
CountAppend(line) ==
  /\ ~Stopped
  /\ AppendLine(line)

\* a pass of the poll loop and the fold of what it synthesized
CountTick ==
  /\ ~Stopped
  /\ Len(transcript) > polledAgent.file_position
  /\ LET read == ReadNewContent(polledAgent, transcript)
     IN /\ polledAgent' = read.agent
        /\ emitted' = emitted \o read.events
        /\ sm' = FoldPolled(sm, read.events)
  /\ UNCHANGED <<twin, lastEvent, raised, nsteps, procVars, pollVars, castVars,
                 fileVars, restVars, transcript, pollStart>>

\* the subagent ends: SUBAGENT_STOP with its transcript path is folded
CountStop ==
  /\ ~Stopped
  /\ LET event == Event("subagent_stop", "s1", 1,
                        [EventData EXCEPT !.agent_id = "a1",
                                          !.agent_transcript_path = "t"])
     IN /\ sm' = Transition(sm, event,
                            [Env0 EXCEPT !.tool_count = CountToolUses(transcript)])
        /\ lastEvent' = event
  /\ UNCHANGED <<twin, raised, nsteps, procVars, extVars>>

CountNext ==
  \/ \E line \in CountLines : CountAppend(line)
  \/ CountTick
  \/ CountStop

SpecCount == CountInit /\ [][CountNext]_vars

\* ------------------------------------------------------------- SpecCap
\* One session spawns subagents a1, a2, .. one after the other, each with a
\* transcript, until one more than MAX_AGENTS SubagentStart events have been
\* processed to their end.
CapLength == MAX_AGENTS + 1

CapEvent(t) ==
  /\ Quiescent
  /\ nsteps < CapLength
  /\ Submit(t, "subagent_start", "s1",
            [EventData EXCEPT !.agent_id = AllAgentIds[nsteps + 1],
                              !.agent_transcript_path = "t"],
            FALSE)

CapNext ==
  \/ \E t \in TaskIds : CapEvent(t)
  \/ \E t \in TaskIds : PersistEvent(t, FALSE)
  \/ \E t \in TaskIds : Resolve(t)
  \/ \E t \in TaskIds : RestoreSession(t)
  \/ \E t \in TaskIds : Enrich(t)
  \/ \E t \in TaskIds : Broadcast(t)
  \/ \E t \in TaskIds : FollowUp(t)

SpecCap == LifeInit /\ [][CapNext]_vars

\* ------------------------------------------------------------ SpecSplit
\* The writer of a transcript is another process: one line may reach the
\* file in two appends.  Here the file is a sequence of pieces, each a whole
\* line (with its newline), the head of a line, or the tail that completes
\* the head before it (with the newline); the read offset is counted in
\* pieces.  A head without its tail and a tail without its head are no JSON
\* document: json.loads raises JSONDecodeError on them.
MaxPieces == 4         \* pieces a transcript grows to

SplitRecords ==
  {TranscriptRecord("assistant", "assistant", <<ToolUseBlock("X", "Read")>>),
   TranscriptRecord("user", "user", <<ToolResultBlock("X", FALSE)>>),
   TranscriptRecord("assistant", "assistant", <<ThinkingBlock("hm")>>),
   TranscriptRecord("assistant", "assistant", <<TextBlock("ok")>>)}

Piece(record, part) == [line |-> record, part |-> part]

\* `content.split("\n")` and json.loads of each line, for the pieces of one
\* read
RECURSIVE SplitLines(_, _)
SplitLines(pieces, i) ==
  IF i > Len(pieces) THEN <<>>
  ELSE IF pieces[i].part = "whole"
  THEN <<pieces[i].line>> \o SplitLines(pieces, i + 1)
  ELSE IF pieces[i].part = "head" /\ i < Len(pieces)
          /\ pieces[i + 1].part = "tail"
  THEN <<pieces[i].line>> \o SplitLines(pieces, i + 2)
  ELSE <<BadJsonLine>> \o SplitLines(pieces, i + 1)

MidLine == transcript # <<>> /\ transcript[Len(transcript)].part = "head"

SplitInit ==
  /\ CoreIdle /\ PollIdle /\ CastIdle /\ FileIdle /\ RestIdle
  /\ transcript = <<>>
  /\ polledAgent = PolledAgent("a1", "s1", 0)
  /\ emitted = <<>>
  /\ pollStart = 0

\* the subagent writes a line in one append
WriteLine(record) ==
  /\ ~MidLine
  /\ Len(transcript) < MaxPieces
  /\ transcript' = Append(transcript, Piece(record, "whole"))
  /\ UNCHANGED <<otherThanParse, polledAgent, emitted, pollStart>>

\* the subagent writes the first bytes of a line
WriteHead(record) ==
  /\ ~MidLine
  /\ Len(transcript) + 1 < MaxPieces
  /\ transcript' = Append(transcript, Piece(record, "head"))
  /\ UNCHANGED <<otherThanParse, polledAgent, emitted, pollStart>>

\* the subagent writes the rest of the line and its newline
WriteTail ==
  /\ MidLine
  /\ transcript' = Append(transcript,
                          Piece(transcript[Len(transcript)].line, "tail"))
  /\ UNCHANGED <<otherThanParse, polledAgent, emitted, pollStart>>

\* TranscriptPoller._read_new_content on a pass of _poll_loop: f.read()
\* returns what is in the file now, f.tell() is the new offset
SplitTick ==
  /\ Len(transcript) > polledAgent.file_position
  /\ LET new_content == SubSeq(transcript, polledAgent.file_position + 1,
                               Len(transcript))
         read == ParseContent(
                   [agent |-> [polledAgent EXCEPT
                                 !.file_position = Len(transcript)],
                    events |-> <<>>],
                   SplitLines(new_content, 1), 1)
     IN /\ polledAgent' = read.agent
        /\ emitted' = emitted \o read.events
  /\ UNCHANGED <<otherThanParse, transcript, pollStart>>

SplitNext ==
  \/ \E record \in SplitRecords : WriteLine(record)
  \/ \E record \in SplitRecords : WriteHead(record)
  \/ WriteTail
  \/ SplitTick

SpecSplit == SplitInit /\ [][SplitNext]_vars

\* ----------------------------------------------------------- SpecOffset
\* Every pass of the poll loop of one polled agent, also the passes that
\* find nothing new: the file grows by whole lines, may be emptied by its
\* writer, and each pass is logged with the offset and the file size it
\* found, the lines it read and the number of events it handed on.
MaxTicks == 3          \* passes of the poll loop that are logged

OffsetLines == SplitRecords \cup {BadJsonLine, NotAnObjectLine}

OffsetInit ==
  /\ CoreIdle /\ PollIdle /\ CastIdle /\ FileIdle /\ DeleteIdle /\ TicksIdle
  /\ watch = [k \in {"transcript"} |-> ReadingTask]
  /\ transcript \in {<<>>} \cup {<<l>> : l \in OffsetLines}
  /\ polledAgent = PolledAgent("a1", "s1", Len(transcript))
  /\ emitted = <<>>
  /\ pollStart = Len(transcript)

\* the writer starts the file afresh
EmptyFile ==
  /\ transcript # <<>>
  /\ transcript' = <<>>
  /\ UNCHANGED <<otherThanParse, polledAgent, emitted, pollStart>>

\* one pass of _poll_loop: _read_new_content returns at once when
\* `current_size <= agent.file_position`, and reads from the offset to the
\* end of the file otherwise
OffsetTick ==
  /\ Len(ticks) < MaxTicks
  /\ watch["transcript"].pc = "read"
  /\ \/ PollPass
     \/ /\ Len(transcript) <= polledAgent.file_position
        /\ watch' = [watch EXCEPT !["transcript"].seen = "nothing"]
        /\ UNCHANGED <<polledAgent, emitted>>
  /\ ticks' = Append(ticks,
       [offset |-> polledAgent.file_position,
        size |-> Len(transcript),
        read |-> IF Len(transcript) > polledAgent.file_position
                 THEN (polledAgent.file_position + 1)..Len(transcript)
                 ELSE {},
        events |-> Len(emitted') - Len(emitted)])
  /\ UNCHANGED <<foldVars, procVars, pollVars, castVars, fileVars, transcript,
                 pollStart, deleted>>

OffsetNext ==
  \/ \E line \in OffsetLines : AppendLine(line)
  \/ EmptyFile
  \/ OffsetTick

SpecOffset == OffsetInit /\ [][OffsetNext]_vars

\* ------------------------------------------------------------ SpecDedup
\* A polled subagent that thinks and answers: its transcript grows by
\* assistant records of one thinking or one text block, among them blocks
\* whose texts differ only after their first HASH_CHARS characters.
DedupTexts == {"hm", LongTextA, LongTextB}

DedupLines ==
  {TranscriptRecord("assistant", "assistant", <<ThinkingBlock(text)>>)
     : text \in DedupTexts}
  \cup {TranscriptRecord("assistant", "assistant", <<TextBlock(text)>>)
          : text \in DedupTexts}

DedupInit ==
  /\ CoreIdle /\ PollIdle /\ CastIdle /\ FileIdle /\ DeleteIdle /\ TicksIdle
  /\ watch = [k \in {"transcript"} |-> ReadingTask]
  /\ transcript = <<>>
  /\ polledAgent = PolledAgent("a1", "s1", 0)
  /\ emitted = <<>>
  /\ pollStart = 0

DedupNext ==
  \/ \E line \in DedupLines : AppendLine(line)
  \/ PollTick

SpecDedup == DedupInit /\ [][DedupNext]_vars

\* ------------------------------------------------------------- SpecSort
\* _read_task_files as a function of the task files it is given: a task
\* directory holds up to MaxTaskFiles files, glob lists them in some order,
\* and one _check_for_changes reads them.  Besides the ids of SpecFiles
\* there are a second non-numeric id, a task without subject, two ids that
\* are numerals of one integer, negative ids and ids of ten and of eleven
\* digits.
MaxTaskFiles == 3
SortFileNames ==
  TaskFileNames \cup {"b.json", "3.json", "07.json", "7.json", "-2.json",
                      "-5.json", "9999999999.json", "10000000000.json"}

SortInit ==
  /\ CoreIdle /\ ParseIdle /\ PollIdle /\ CastIdle /\ HomeIdle /\ RestIdle
  /\ \E names \in SUBSET SortFileNames :
       /\ Cardinality(names) <= MaxTaskFiles
       /\ taskDir = [exists |-> TRUE, files |-> [n \in names |-> 1]]
  /\ last_modified = NoFiles
  /\ tick = NoTick

\* the first _check_for_changes of the session, the files listed in the
\* order `listing`
SortTick(listing) ==
  /\ ~tick.ran
  /\ last_modified' = taskDir.files
  /\ tick' = [ran |-> TRUE, before |-> tick.seen, seen |-> Visible(taskDir),
              calls |-> IF listing = <<>> THEN 0 ELSE 1,
              todos |-> ReadTaskList(listing)]
  /\ UNCHANGED <<otherThanFiles, taskDir>>

SortNext == \E listing \in Listings(DOMAIN taskDir.files) : SortTick(listing)

SpecSort == SortInit /\ [][SortNext]_vars

\* --------------------------------------------------------------- claims
NoHistory(s) == [s EXCEPT !.history = <<>>]

\* C1 (as claimed): once a session's events have been processed live, one at
\* a time, folding its persisted log from an empty StateMachine gives the
\* live in-memory state (registry, native ids, bubbles, queues, counters).
\* The log is folded as _restore_session folds it; the event history is left
\* out of the comparison, and the live state only has to be one of the
\* states the replay can give.
C1_ReplayEqualsLive ==
  Quiescent =>
    \A sid \in SessionIds :
      sessions[sid] # 0 =>
        NoHistory(objs[sessions[sid]])
          \in {NoHistory(r)
                 : r \in Restored(OrderByTimestamp(RowsOf(db, sid)))}

\* rows written by process_event (the synthetic Cleanup rows left out)
EventRows(rows) == SelectSeq(rows, LAMBDA r : r.event_type # "cleanup")

\* C2 (as claimed): after [A, SessionStart, B] has been processed for one
\* session id, no row of the log was appended before the SessionStart, and
\* replaying the log gives the state that folding [SessionStart, B] in
\* processing order gives.
C2_ResetBoundary ==
  Quiescent =>
    \A sid \in SessionIds :
      LET rows == RowsOf(db, sid)
      IN (/\ \E i \in 1..Len(rows) : rows[i].event_type = "session_start"
          /\ Len(EventRows(db)) < nsteps)
         => /\ rows[1].event_type = "session_start"
            /\ \A i \in 2..Len(rows) : rows[i].event_type # "session_start"
            /\ Restored(OrderByTimestamp(rows)) = Restored(rows)

\* the steps of an event between its persist and the end of its broadcast
InPipeline(t) == tasks[t].pc \in {"resolve", "restore", "enrich", "broadcast"}

\* C3 (as claimed): of two events of one session, one has finished its
\* persist, fold and broadcast before the other's persist begins: no two
\* events of a session are past their persist and before the end of their
\* broadcast at once.
C3_PerSessionSerialization ==
  \A t, u \in TaskIds :
    (t # u /\ tasks[t].event.session_id = tasks[u].event.session_id)
      => ~(InPipeline(t) /\ InPipeline(u))

\* C4 (as claimed): for one session id a single StateMachine object is ever
\* installed in the session map, and every call folds its event into the
\* object the map holds.
C4_NoDuplicateSession ==
  /\ \A sid \in SessionIds : Cardinality(installed[sid]) <= 1
  /\ \A t \in TaskIds :
       tasks[t].sm # 0 => tasks[t].sm = sessions[tasks[t].event.session_id]

\* C8 (as claimed): history never holds more than HISTORY_MAX entries, and
\* once a session has processed more than HISTORY_MAX events its history is
\* the entries of the HISTORY_MAX events processed last, in processing
\* order, whether or not it was restored from the log in between.
C8_HistoryBound ==
  \A sid \in SessionIds :
    sessions[sid] # 0 =>
      LET history == objs[sessions[sid]].history
          rows == RowsOf(db, sid)
      IN /\ Len(history) <= HISTORY_MAX
         /\ (Quiescent /\ Len(rows) > HISTORY_MAX)
              => history = LastN([i \in 1..Len(rows) |-> HistoryEntry(rows[i])],
                                 HISTORY_MAX)

\* C9 (as claimed): every exception raised while an event is processed is
\* answered by an `error` message on the event's session channel.
C9_ErrorsReported ==
  \A sid \in SessionIds : errors[sid].reported = errors[sid].raised

\* C5 (as claimed): two StateMachines that start in equal states and are fed
\* the same events are in equal states after every event.
C5_DeterministicFold == sm = twin

\* C6: the registry never holds more than MAX_AGENTS agents, and a
\* SubagentStart folded while MAX_AGENTS agents are live changes neither the
\* registry nor the queues and does not raise.
C6_AgentCap ==
  /\ [](Len(sm.agents) <= MAX_AGENTS)
  /\ [][(lastEvent'.event_type = "subagent_start"
         /\ Len(sm.agents) = MAX_AGENTS)
        => /\ sm'.agents = sm.agents
           /\ sm'.arrival_queue = sm.arrival_queue
           /\ sm'.agent_lifespans = sm.agent_lifespans
           /\ ~raised']_vars

\* C6 witness: a spawn for an id not in the registry has been folded with
\* MAX_AGENTS agents live, and was dropped.
C6_Witness ==
  /\ lastEvent.event_type = "subagent_start"
  /\ Truthy(lastEvent.data.agent_id)
  /\ ~HasAgent(sm.agents, lastEvent.data.agent_id)
  /\ Len(sm.agents) = MAX_AGENTS
  /\ ~raised

QueuesWithinRegistry(s) ==
  /\ SeqRange(s.arrival_queue) \subseteq AgentIds(s.agents)
  /\ SeqRange(s.handin_queue) \subseteq AgentIds(s.agents)

\* C7: every id in arrival_queue or handin_queue is a key of the registry;
\* a Cleanup takes its agent out of the registry and of both queues in the
\* same step, and a Cleanup for an unknown id changes nothing and does not
\* raise.
C7_QueueConsistency ==
  /\ [](QueuesWithinRegistry(sm))
  /\ [][lastEvent'.event_type = "cleanup"
        => LET id == lastEvent'.data.agent_id
           IN /\ ~raised'
              /\ ~HasAgent(sm'.agents, id)
              /\ ~InSeq(sm'.arrival_queue, id)
              /\ ~InSeq(sm'.handin_queue, id)
              /\ (~HasAgent(sm.agents, id) => sm' = sm)]_vars

\* C7 witness: a Cleanup has removed an agent that was in the hand-in queue
\* while another agent is still queued for arrival.
C7_Witness ==
  /\ lastEvent.event_type = "cleanup"
  /\ Truthy(lastEvent.data.agent_id)
  /\ ~HasAgent(sm.agents, lastEvent.data.agent_id)
  /\ \E i \in 1..Len(sm.agent_lifespans) :
       /\ sm.agent_lifespans[i].agent_id = lastEvent.data.agent_id
       /\ sm.agent_lifespans[i].ended
  /\ sm.arrival_queue # <<>>

AgentIdAbsent(d) == d.agent_id = None /\ d.native_agent_id = None
TokensAbsent(d) ==
  /\ d.input_tokens = NoneInt /\ d.output_tokens = NoneInt
  /\ d.transcript_path = None /\ d.agent_transcript_path = None

\* the bubble of the entity an event acts on
ActingBubble(s, d) ==
  IF ActingAgentId(d) = "main" THEN s.boss_bubble
  ELSE IF HasAgent(s.agents, ActingAgentId(d))
  THEN s.agents[AgentIndex(s.agents, ActingAgentId(d))].bubble
  ELSE NoBubble

\* C10 (as claimed): transition never raises, and a lookup of an absent field
\* leaves the state that field feeds untouched: no tool name, no bubble
\* change; no prompt, no change of the stored prompt, bubble and task.
C10_AbsentFieldsUntouched ==
  [][LET d == lastEvent'.data
         t == lastEvent'.event_type
     IN /\ ~raised'
        /\ (t \in {"pre_tool_use", "permission_request"} /\ d.tool_name = None
            => ActingBubble(sm', d) = ActingBubble(sm, d))
        /\ (t = "user_prompt_submit" /\ d.prompt = None
            => /\ sm'.last_user_prompt = sm.last_user_prompt
               /\ sm'.boss_bubble = sm.boss_bubble
               /\ sm'.boss_current_task = sm.boss_current_task)]_vars

\* C10 (amended): transition never raises, whatever optional fields are
\* absent.  With no agent id and no native id the registry and both queues
\* are untouched; with no tool input the todos, and for PostToolUse the file
\* edit and bug-fix counters, are untouched; with no token field and no
\* transcript path the token totals are untouched; a UserPromptSubmit with no
\* prompt leaves the boss bubble and the current task untouched and stores
\* the absent prompt as last prompt; a PreToolUse or PermissionRequest of the
\* boss with no tool name replaces the boss bubble by the default one (empty
\* caption and default icon, resp. "Waiting: None").
C10_FoldNeverRaises ==
  [][LET d == lastEvent'.data
         t == lastEvent'.event_type
     IN /\ ~raised'
        /\ (AgentIdAbsent(d)
            => /\ sm'.agents = sm.agents
               /\ sm'.arrival_queue = sm.arrival_queue
               /\ sm'.handin_queue = sm.handin_queue)
        /\ (d.tool_input.none
            => /\ sm'.todos = sm.todos
               /\ (t = "post_tool_use"
                   => /\ sm'.file_edits = sm.file_edits
                      /\ sm'.bug_fixed_count = sm.bug_fixed_count))
        /\ (TokensAbsent(d)
            => /\ sm'.total_input_tokens = sm.total_input_tokens
               /\ sm'.total_output_tokens = sm.total_output_tokens)
        /\ (t = "user_prompt_submit" /\ d.prompt = None
            => /\ sm'.boss_bubble = sm.boss_bubble
               /\ sm'.boss_current_task = sm.boss_current_task
               /\ sm'.last_user_prompt = None)
        /\ (t = "pre_tool_use" /\ d.tool_name = None /\ d.agent_id = None
            => sm'.boss_bubble = [type |-> "thought", text |-> "",
                                  icon |-> "gear", persistent |-> FALSE])
        /\ (t = "permission_request" /\ d.tool_name = None
             /\ d.agent_id = None
            => sm'.boss_bubble = [type |-> "thought", text |-> "Waiting: None",
                                  icon |-> "question",
                                  persistent |-> FALSE])]_vars

\* C10 witness: a PreToolUse with no agent id, no tool name, no tool input,
\* no transcript path and no prompt has been folded after the boss had been
\* given a prompt; it did not raise and it replaced the boss bubble.
C10_Witness ==
  /\ lastEvent.event_type = "pre_tool_use"
  /\ lastEvent.data = EventData
  /\ ~raised
  /\ sm.last_user_prompt = "do it"
  /\ sm.boss_bubble.type = "thought"
\* ---------------------------------------------------------- C11 (SpecParse)
\* the lines the poll loop has read since start_polling
ReadLines == SubSeq(transcript, pollStart + 1, polledAgent.file_position)

\* positions <<line, block>> of the blocks of one type and id that
\* _parse_content looks at: tool_use in assistant records, tool_result in
\* user records
BlocksRead(type, id) ==
  {p \in (1..Len(ReadLines)) \X (1..2) :
     LET record == ReadLines[p[1]]
     IN /\ record.json
        /\ p[2] <= Len(record.blocks)
        /\ record.blocks[p[2]].type = type
        /\ record.blocks[p[2]].id = id
        /\ record.type = record.role
        /\ record.type = IF type = "tool_use" THEN "assistant" ELSE "user"}

BlockBefore(p, q) == p[1] < q[1] \/ (p[1] = q[1] /\ p[2] < q[2])

\* the block carries a tool name other than the delegation tool
NamedTool(p) ==
  LET name == ReadLines[p[1]].blocks[p[2]].name
  IN Truthy(name) /\ name # "Task"

EmittedOf(type, id) ==
  {k \in 1..Len(emitted) : /\ emitted[k].event_type = type
                           /\ emitted[k].data.tool_use_id = id}

OnePreThenOnePost(id) ==
  /\ Cardinality(EmittedOf("pre_tool_use", id)) = 1
  /\ Cardinality(EmittedOf("post_tool_use", id)) = 1
  /\ \A k \in EmittedOf("pre_tool_use", id) :
       \A n \in EmittedOf("post_tool_use", id) : k < n

\* every PostToolUse has a PreToolUse of its own before it, and a
\* tool_result block it comes from
PostsMatched(id) ==
  /\ \A n \in EmittedOf("post_tool_use", id) :
       Cardinality({k \in EmittedOf("post_tool_use", id) : k <= n})
         <= Cardinality({k \in EmittedOf("pre_tool_use", id) : k < n})
  /\ Cardinality(EmittedOf("post_tool_use", id))
       <= Cardinality(BlocksRead("tool_result", id))

\* the one tool_use block with this id is followed by the one tool_result
OneUseThenOneResult(id, u, r) ==
  /\ BlocksRead("tool_use", id) = {u}
  /\ BlocksRead("tool_result", id) = {r}
  /\ BlockBefore(u, r)

\* C11 (as claimed): a tool_use block with id X followed, in the same or a
\* later tick, by a tool_result with tool_use_id X yields exactly one
\* PreToolUse and exactly one PostToolUse, the pre first; a tool_result whose
\* id is not pending yields no PostToolUse.
C11_ToolResultCorrelation ==
  \A id \in ToolUseIds :
    /\ \A u \in BlocksRead("tool_use", id) :
         \A r \in BlocksRead("tool_result", id) :
           OneUseThenOneResult(id, u, r) => OnePreThenOnePost(id)
    /\ PostsMatched(id)

\* What does hold, as long as no line has ended the poll task (C28): every
\* tool_use block with a tool name other than Task yields exactly one
\* PreToolUse and a block without such a name yields none; one such named
\* block with id X followed by one tool_result with id X yields exactly one
\* PreToolUse and then exactly one PostToolUse, and when the block has no
\* name or is a Task block neither event is synthesized; every PostToolUse
\* is preceded by a PreToolUse of its own.
NamedToolsCorrelate ==
  watch["transcript"].pc = "read" =>
  \A id \in ToolUseIds :
    /\ Cardinality(EmittedOf("pre_tool_use", id))
         = Cardinality({u \in BlocksRead("tool_use", id) : NamedTool(u)})
    /\ \A u \in BlocksRead("tool_use", id) :
         \A r \in BlocksRead("tool_result", id) :
           OneUseThenOneResult(id, u, r) =>
             IF NamedTool(u) THEN OnePreThenOnePost(id)
             ELSE /\ EmittedOf("pre_tool_use", id) = {}
                  /\ EmittedOf("post_tool_use", id) = {}
    /\ PostsMatched(id)

\* ----------------------------------------------------- C12..C14 (SpecPoll)
\* C12: for both pollers a stop_polling(id) that has returned - after
\* another stop_polling(id), on an id never started, or on an id whose poll
\* task had already finished - has not raised and has left is_polling(id)
\* false.
C12_IdempotentStop ==
  lastCall.op = "stop" => ~lastCall.raised /\ ~lastCall.polling

\* a stop_polling has found a finished poll task, and the next stop_polling
\* of the same id, which found nothing, has returned
C12_Witness ==
  /\ lastCall.op = "stop"
  /\ lastCall.found = "none"
  /\ lastCall.again = "finished"

\* the poll tasks of a key that can still call the callback
LivePolls(key) ==
  {t \in PollTaskIds : /\ pollTasks[t].key = key
                       /\ pollTasks[t].pc # "done"
                       /\ ~pollTasks[t].must_cancel}

\* a start_polling of a key that is in the registry returns in this step
NoOpStart(key) ==
  /\ InRegistry(registry, key)
  /\ lastCall' # lastCall
  /\ lastCall'.op = "start"
  /\ lastCall'.key = key

\* C13: under any interleaving of start_polling, stop_polling and stop_all
\* at most one poll task that can still emit exists per key, and
\* start_polling of a key already in the registry creates no task and
\* changes nothing.
C13_AtMostOnePollPerKey ==
  /\ [](\A key \in PollKeys : Cardinality(LivePolls(key)) <= 1)
  /\ [][\A key \in PollKeys :
          NoOpStart(key) => /\ registry' = registry
                            /\ pollTasks' = pollTasks
                            /\ stopped' = stopped]_vars

\* a key has been started again while the cancelled task of its previous
\* watch has not finished yet, and a further start_polling of the key has
\* found it registered
C13_Witness ==
  /\ lastCall.op = "start"
  /\ lastCall.found = "present"
  /\ Cardinality(LivePolls(lastCall.key)) = 1
  /\ \E t \in PollTaskIds : /\ pollTasks[t].key = lastCall.key
                            /\ pollTasks[t].pc # "done"
                            /\ pollTasks[t].must_cancel

\* C14: stop_polling(id) returns only after the poll task of id has
\* completed; once it has returned no callback is invoked for id until id is
\* started again, whatever point of its loop the task was at; and every
\* stop_polling that awaits its task returns, releasing the registry lock.
C14_StopIsFinal ==
  /\ [](lastCall.op = "stop" /\ lastCall.task # 0
          => pollTasks[lastCall.task].pc = "done")
  /\ [](lastEmit # None => stopped[lastEmit] = "no")
  /\ \A c \in CallerIds :
       callers[c].pc = "await" ~> callers[c].pc = "idle" /\ pollLock # c

\* stop_polling has returned from awaiting a task it cancelled inside the
\* callback, with events of the pass still to hand over
C14_Witness ==
  /\ lastCall.op = "stop"
  /\ lastCall.found = "running"
  /\ pollTasks[lastCall.task].pc = "done"
  /\ pollTasks[lastCall.task].result = "cancelled"
  /\ pollTasks[lastCall.task].pending > 0
  /\ stopped[lastCall.key] = "running"

\* ---------------------------------------------------------- C15 (SpecCast)
\* C15: a broadcast (or broadcast_all) over the connections C it found
\* registered, of which the set F failed on send, has on its return
\* delivered the message exactly once to every member of C outside F that
\* is connected and never to a member of F, has removed every member of F
\* from the registry and left the connected others registered, and has not
\* raised.
C15_BroadcastFailureIsolation ==
  \A c \in CastIds :
    casts[c].pc = "done" =>
      /\ ~casts[c].raised
      /\ \A k \in 1..Len(casts[c].connections) :
           LET sid == casts[c].connections[k][1]
               ws == casts[c].connections[k][2]
           IN IF ws \in casts[c].raisedOn
              THEN /\ received[c][ws] = 0
                   /\ ~InSeq(active_connections[sid], ws)
              ELSE wsState[ws] = "connected" =>
                     /\ received[c][ws] = 1
                     /\ InSeq(active_connections[sid], ws)

\* a broadcast whose first peer failed has delivered to the second, and a
\* broadcast_all has returned as well
C15_Witness ==
  \E c, d \in CastIds :
    /\ casts[c].pc = "done" /\ ~casts[c].all
    /\ Len(casts[c].connections) = 2
    /\ casts[c].connections[1][2] \in casts[c].raisedOn
    /\ received[c][casts[c].connections[2][2]] = 1
    /\ casts[d].pc = "done" /\ casts[d].all
    /\ casts[d].connections # <<>>

\* C16  Agent lifecycle scenario: for any agent id a, after SessionStart,
\* SubagentStart{a}, SubagentStop{a, success} and Cleanup{a} have been
\* processed in that order, the agent registry is empty, agent_lifespans
\* holds exactly one entry for a and that entry is closed (start_time is
\* set when the entry is made, end_time when it is closed), and news_items
\* holds at least two items about a: its join and its completion.
AgentNames ==
  {"The Intern"} \cup {ReviewNames[r] : r \in 1..NumChoices}
                 \cup {GenericNames[r] : r \in 1..NumChoices}

LifeDone == nsteps = LifeLength /\ Quiescent /\ lastEvent.event_type = "cleanup"

LifespansOf(s, a) ==
  {i \in 1..Len(s.agent_lifespans) : s.agent_lifespans[i].agent_id = a}

AgentNews(s, suffix) ==
  {i \in 1..Len(s.news_items) :
     /\ s.news_items[i].category = "agent"
     /\ \E n \in AgentNames : s.news_items[i].headline = n \o suffix}

C16_AgentLifecycle ==
  LifeDone =>
    LET s == objs[sessions["s1"]]
        a == lastEvent.data.agent_id
    IN /\ sessions["s1"] # 0
       /\ s.agents = <<>>
       /\ Cardinality(LifespansOf(s, a)) = 1
       /\ \A i \in LifespansOf(s, a) : s.agent_lifespans[i].ended
       /\ AgentNews(s, " joins the team!") # {}
       /\ AgentNews(s, " completed their task!") # {}
       /\ Cardinality({i \in 1..Len(s.news_items) :
                         s.news_items[i].category = "agent"}) >= 2

C16_Witness ==
  /\ LifeDone
  /\ errors["s1"].raised = 0
  /\ Len(objs[sessions["s1"]].agent_lifespans) = 1

\* the thought-bubble text of the entity the event d acts for
BubbleTextOf(s, d) ==
  IF ActingAgentId(d) = "main" THEN s.boss_bubble.text
  ELSE s.agents[AgentIndex(s.agents, ActingAgentId(d))].bubble.text

\* the path with a leading home directory replaced by "~"
Tilded(path) ==
  IF StartsWith(path, home) THEN "~" \o DropChars(path, Len(home)) ELSE path

ReadOf(path) ==
  /\ lastEvent.event_type = "pre_tool_use"
  /\ lastEvent.data.tool_name = "Read"
  /\ lastEvent.data.tool_input.file_path = path

C18_SessionStartHardReset ==
  (lastEvent.event_type = "session_start" /\ ~raised) =>
    /\ sm.tool_usage = StateMachine.tool_usage
    /\ sm.task_completed_count = 0 /\ sm.bug_fixed_count = 0
    /\ sm.coffee_break_count = 0 /\ sm.code_written_count = 0
    /\ sm.recent_error_count = 0 /\ sm.recent_success_count = 0
    /\ sm.consecutive_successes = 0
    /\ sm.last_incident_time = StateMachine.last_incident_time
    /\ sm.coffee_cups = 0
    /\ sm.file_edits = StateMachine.file_edits
    /\ sm.agent_lifespans = <<>>
    /\ Len(sm.news_items) = 1 /\ sm.news_items[1].category = "session"
    /\ sm.tool_uses_since_compaction = 0
    /\ sm.total_input_tokens = 0 /\ sm.total_output_tokens = 0
    /\ sm.todos = <<>>
    /\ sm.agents = <<>>
    /\ sm.arrival_queue = <<>> /\ sm.handin_queue = <<>>

\* the states the session of task t can be in when _restore_session has
\* installed the fold of `rows` and the event of t has been folded into it
AfterRestoreOf(rows, t) ==
  UNION {IF TransitionRaises(r, tasks[t].event) THEN {r}
         ELSE {FoldLive(r, tasks[t].event, env)
                 : env \in EnvsFor(r, tasks[t].event)}
           : r \in Restored(rows)}

WellFormedRows(rows) == SelectSeq(rows, LAMBDA rec : ~RowMalformed(rec))

Restores(t) == tasks[t].pc = "restore" /\ tasks'[t].pc # "restore"

\* C19  Restore tolerates malformed rows: restoring a non-resident session
\* whose log contains individually malformed rows (unknown event type,
\* invalid payload) never raises and installs the state obtained by folding
\* exactly the well-formed rows in the order of the log; when the log is
\* empty no session is installed and a fresh StateMachine is used for the
\* incoming event.
C19_RestoreToleratesMalformed ==
  [][\A t \in TaskIds :
       Restores(t) =>
         LET sid == tasks[t].event.session_id
             rows == RowsOf(db, sid)
         IN /\ tasks'[t].pc # "raised"
            /\ sessions'[sid] # 0
            /\ objs'[sessions'[sid]] \in
                 (IF rows = <<>> THEN AfterRestoreOf(<<>>, t)
                  ELSE AfterRestoreOf(WellFormedRows(rows), t))]_vars

\* the same with the well-formed rows taken in the order of their
\* timestamps, which is the order _restore_session reads them in
RestoreSkipsMalformed ==
  [][\A t \in TaskIds :
       Restores(t) =>
         /\ tasks'[t].pc # "raised"
         /\ objs'[sessions'[tasks[t].event.session_id]] \in
              AfterRestoreOf(
                OrderByTimestamp(
                  WellFormedRows(RowsOf(db, tasks[t].event.session_id))), t)]_vars

\* C20  Task-file change detection: on each poll tick the todo callback is
\* invoked (once, with the list rebuilt from all files currently in the
\* directory) if and only if the set of task files or some file's
\* modification time differs from the previous tick, including when files
\* were removed, down to an empty directory; a tick with no difference
\* invokes no callback.
C20_TaskFileChangeDetection ==
  tick.ran =>
    /\ tick.calls = 1 <=> tick.seen # tick.before
    /\ tick.calls = 0 <=> tick.seen = tick.before
    /\ tick.calls = 1 => tick.todos = ReadTaskFiles(DOMAIN tick.seen)

\* C21  Inactivity self-termination: a watch task (transcript or task-file)
\* that observes no activity from some point on eventually terminates by
\* itself once the inactivity window has passed, without any stop call;
\* while activity keeps being observed within the window it does not
\* terminate.
C21_InactivitySelfTermination ==
  \A k \in WatchKinds :
    /\ <>[](watch[k].seen # "activity") => <>(watch[k].pc = "done")
    /\ [](watch[k].pc = "done" => watch[k].elapsed > INACTIVITY_TICKS)

\* the part of C21 that is about the timeout alone: a task left without
\* activity ends, and the timeout ends no task that saw activity within
\* the window
WatchTimesOut ==
  \A k \in WatchKinds :
    /\ <>[](watch[k].seen # "activity") => <>(watch[k].pc = "done")
    /\ [](watch[k].result = "timeout" => watch[k].elapsed > INACTIVITY_TICKS)

\* number of entries of a history that were made for the event stamped ts
EntriesFor(history, ts) ==
  Cardinality({i \in 1..Len(history) : history[i].id = ts})

\* C22  Exactly-once fold: every event passed to process_event is folded
\* into the session's live state exactly once and contributes exactly one
\* history entry, including the first event processed for a session id
\* that is not resident in memory (new session, or first event after a
\* restart).
C22_ExactlyOnceFold ==
  (Quiescent /\ lastEvent # NoEvent /\ errors["s1"].raised = 0
     /\ sessions["s1"] # 0) =>
    EntriesFor(objs[sessions["s1"]].history, lastEvent.timestamp) = 1

\* C23  Replay order is arrival order: restoring or replaying a session
\* folds its persisted rows in the order in which they were appended (the
\* order in which they were processed live), also when the timestamps the
\* producer supplied are not monotone in arrival order and when synthetic
\* rows (Cleanup) are stamped with the server clock.
C23_ReplayInArrivalOrder ==
  \A t \in TaskIds :
    tasks[t].pc = "restore" =>
      OrderByTimestamp(RowsOf(db, tasks[t].event.session_id))
        = RowsOf(db, tasks[t].event.session_id)

\* C24  Stopped agents stay gone after replay: when the follow-up of a
\* SubagentStop that resolved to agent a (by agent_id, or by native id only)
\* has removed a and persisted the synthetic Cleanup row, a is absent from
\* the live registry and from every registry a replay of the session's
\* persisted rows can build.
C24_StoppedAgentsStayGone ==
  [][\A t \in TaskIds :
       tasks[t].pc = "remove" /\ tasks'[t].pc = "idle" =>
         /\ ~HasAgent(objs'[tasks[t].sm].agents, tasks[t].resolved)
         /\ \A r \in Restored(OrderByTimestamp(
                                RowsOf(db', tasks[t].event.session_id))) :
              ~HasAgent(r.agents, tasks[t].resolved)]_vars

\* C25  Native-id correlation touches one agent: the SUBAGENT_INFO follow-up
\* for native id N gives N to the first agent in registry order that lacks
\* a native id and changes the native id of no other agent, whatever the
\* agents' polling status; so when no agent had N before, at most one agent
\* has it afterwards.
FirstLackingNative(agents) ==
  FirstByNativeId(agents, None, 1)

C25_NativeIdTouchesOneAgent ==
  [][\A t \in TaskIds :
       tasks[t].pc = "link" /\ tasks'[t].pc = "idle" =>
         LET before == objs[tasks[t].sm].agents
             after == objs'[tasks[t].sm].agents
             nid == tasks[t].event.data.native_agent_id
         IN /\ Len(after) = Len(before)
            /\ \A i \in 1..Len(before) :
                 after[i].native_id =
                   IF i = FirstLackingNative(before) THEN nid
                   ELSE before[i].native_id
            /\ FirstByNativeId(before, nid, 1) = 0 =>
                 Cardinality({i \in 1..Len(after) : after[i].native_id = nid})
                   <= 1]_vars

\* C26  SubagentStop resolution order: folding a SubagentStop targets the
\* agent whose registry key is the event's agent_id when there is one, and
\* only otherwise the first agent whose native_id is the event's native id;
\* after the fold the resolved agent's id is in handin_queue exactly once,
\* its state is waiting, and no other agent has been touched.
MatchesStop(agent, d) ==
  Truthy(d.agent_id) /\ agent.id = d.agent_id

NativeMatchesStop(agent, d) ==
  Truthy(d.native_agent_id) /\ agent.native_id = d.native_agent_id

StopTargets(s, d) ==
  LET n == 1..Len(s.agents)
      byId == {i \in n : MatchesStop(s.agents[i], d)}
      byNative == {i \in n : /\ NativeMatchesStop(s.agents[i], d)
                             /\ \A j \in n : NativeMatchesStop(s.agents[j], d)
                                               => i <= j}
  IN IF byId # {} THEN byId ELSE byNative

Occurrences(queue, id) ==
  Cardinality({k \in 1..Len(queue) : queue[k] = id})

C26_StopResolutionOrder ==
  [][lastEvent'.event_type = "subagent_stop" /\ ~raised' =>
       \A i \in StopTargets(sm, lastEvent'.data) :
         /\ Len(sm'.agents) = Len(sm.agents)
         /\ sm'.agents[i].state = "waiting"
         /\ Occurrences(sm'.handin_queue, sm.agents[i].id) = 1
         /\ \A j \in 1..Len(sm.agents) :
              j # i => sm'.agents[j] = sm.agents[j]
         /\ SeqRange(sm'.handin_queue)
              = SeqRange(sm.handin_queue) \cup {sm.agents[i].id}]_vars

\* a stop naming the last agent by agent_id and the first agent by native
\* id has been folded: the last agent waits in the hand-in queue, the first
\* one does not
C26_Witness ==
  /\ lastEvent.event_type = "subagent_stop"
  /\ ~raised
  /\ Len(sm.agents) >= 2
  /\ lastEvent.data.agent_id = sm.agents[Len(sm.agents)].id
  /\ lastEvent.data.native_agent_id = sm.agents[1].native_id
  /\ sm.agents[Len(sm.agents)].state = "waiting"
  /\ sm.handin_queue = <<lastEvent.data.agent_id>>
  /\ sm.agents[1].state # "waiting"

\* C27  Unresolvable stop is a no-op: a SubagentStop whose agent_id is not a
\* key of the registry and whose native id is the native_id of no agent (or
\* that carries neither) raises nothing; folding it leaves the registry,
\* both queues, agent_lifespans, news_items, boss_state and phase as they
\* were, and its follow-up stops no poller, persists no Cleanup row and
\* changes no state machine.
StopFrame(before, after) ==
  /\ after.agents = before.agents
  /\ after.arrival_queue = before.arrival_queue
  /\ after.handin_queue = before.handin_queue
  /\ after.agent_lifespans = before.agent_lifespans
  /\ after.news_items = before.news_items
  /\ after.boss_state = before.boss_state
  /\ after.phase = before.phase

C27_UnresolvableStopIsNoOp ==
  [][\A t \in TaskIds :
       LET event == tasks[t].event
           ref == sessions[event.session_id]
       IN event.event_type = "subagent_stop" /\ tasks'[t].pc # tasks[t].pc =>
            /\ ( /\ tasks[t].pc = "resolve"
                 /\ ref # 0
                 /\ StopTargets(objs[ref], event.data) = {} ) =>
                 /\ tasks'[t].pc = "broadcast"
                 /\ StopFrame(objs[ref], objs'[ref])
            /\ ( /\ tasks[t].pc = "leave"
                 /\ StopTargets(objs[tasks[t].sm], event.data) = {} ) =>
                 /\ tasks'[t].pc = "idle"
                 /\ polling' = polling
                 /\ db' = db
                 /\ objs' = objs]_vars

\* a stop naming an agent that is not in the registry has been processed to
\* its end while another agent was polled: that agent is still registered
\* and polled, and the log holds no Cleanup row
C27_Witness ==
  /\ Quiescent
  /\ lastEvent.event_type = "subagent_stop"
  /\ sessions[lastEvent.session_id] # 0
  /\ objs[sessions[lastEvent.session_id]].agents # <<>>
  /\ StopTargets(objs[sessions[lastEvent.session_id]], lastEvent.data) = {}
  /\ \A i \in 1..Len(db) : db[i].event_type # "cleanup"
  /\ \E p \in polling : HasAgent(objs[sessions[lastEvent.session_id]].agents,
                                 p.agent_id)
  /\ \E i \in 1..Len(db) : db[i] = lastEvent

\* C28  Malformed transcript lines are skipped, not fatal: a line of newly
\* appended content that is not a well-formed record (invalid JSON, JSON
\* that is not an object, or an object whose message has the wrong shape)
\* is skipped alone; the events of the other lines read so far have been
\* emitted, and the poll task goes on polling.
WellFormedLines(lines) ==
  SelectSeq(lines, LAMBDA l : l.json /\ ~LineRaises(l))

EventsOfLines(lines) ==
  ParseContent([agent |-> PolledAgent("a1", "s1", pollStart),
                events |-> <<>>],
               WellFormedLines(lines), 1).events

C28_MalformedLinesSkipped ==
  /\ watch["transcript"].pc # "done"
  /\ emitted = EventsOfLines(SubSeq(transcript, pollStart + 1,
                                    polledAgent.file_position))

\* C29  is_polling reflects a live poll task: for both pollers and every key,
\* is_polling(key) is true only while a poll task of that key is running;
\* once the task has ended by itself (inactivity timeout or an exception in
\* the loop) is_polling(key) is false, so that a later start_polling(key)
\* starts a new task.
C29_IsPollingReflectsLiveTask ==
  \A key \in PollKeys :
    InRegistry(registry, key) => pollTasks[registry[key]].pc # "done"

\* C30  Deleted sessions stay deleted: once a session has been deleted (its
\* rows removed and remove_session returned, or clear_all_sessions) and no
\* producer submits an event for it afterwards, it is never resident in
\* memory again and the log never holds a row of it again, whatever
\* transcript pollers and process_event tasks were running at the deletion.
C30_DeletedSessionsStayDeleted ==
  \A sid \in deleted :
    /\ sessions[sid] = 0
    /\ RowsOf(db, sid) = <<>>

\* C31  No double counting of subagent tool uses: over the agent's whole
\* life tool_uses_since_compaction rises by at most 1 for each tool use the
\* subagent performed, counting the PostToolUse events synthesized by the
\* transcript poller together with the transcript count credited when the
\* SubagentStop is folded.
C31_NoDoubleCounting ==
  sm.tool_uses_since_compaction <= CountToolUses(transcript)

\* C32  Desk and number uniqueness: in every reachable state no two agents
\* of the registry have the same desk or the same number, whatever spawns,
\* stops, cleanups and placeholder creations led to it.
C32_DesksAreUnique ==
  \A i, j \in 1..Len(sm.agents) :
    i # j => /\ sm.agents[i].desk # sm.agents[j].desk
             /\ sm.agents[i].number # sm.agents[j].number

\* C33  Removed agents do not reappear: once Cleanup has removed an agent id
\* from the registry, the id is in the registry again only through the fold
\* of a SubagentStart for it; a late PreToolUse, PostToolUse,
\* PermissionRequest or AgentUpdate naming the id does not re-create it.
\* (`id` was spawned - it has a lifespan - and the last fold removed it.)
JustRemoved(id) ==
  /\ lastEvent.event_type = "cleanup"
  /\ lastEvent.data.agent_id = id
  /\ ~raised
  /\ ~HasAgent(sm.agents, id)
  /\ \E k \in 1..Len(sm.agent_lifespans) : sm.agent_lifespans[k].agent_id = id

C33_RemovedAgentsStayRemoved ==
  [][\A id \in SeqRange(AllAgentIds) :
       JustRemoved(id) /\ HasAgent(sm'.agents, id) =>
         /\ lastEvent'.event_type = "subagent_start"
         /\ lastEvent'.data.agent_id = id]_vars

\* C34  Pollers only for registered agents: the processor starts a
\* transcript poller for an agent id only if the id is in the registry of
\* its session after the fold; a SubagentStart dropped because MAX_AGENTS
\* agents were live starts no poller.
C34_PollersOnlyForRegisteredAgents ==
  [][\A p \in polling' \ polling :
       /\ sessions'[p.session_id] # 0
       /\ HasAgent(objs'[sessions'[p.session_id]].agents, p.agent_id)]_vars

\* C35  No transcript line is lost: whatever the interleaving of the
\* writer's appends with the poll ticks, once the poller has read up to the
\* end of a file that ends with a complete line, the events emitted are
\* those of parsing every complete line of the file once, in order -
\* also when the bytes of a line were written in two appends with a tick
\* between them.
C35_NoLineLost ==
  (polledAgent.file_position = Len(transcript) /\ ~MidLine)
    => emitted = ParseContent([agent |-> PolledAgent("a1", "s1", 0),
                               events |-> <<>>],
                              SplitLines(transcript, 1), 1).events

\* C36  Placeholder agent on unknown id: folding a PreToolUse of a tool other
\* than Task whose agent id is neither "main" nor in the registry does not
\* raise and leaves both queues and every agent of the registry as they
\* were; with fewer than MAX_AGENTS agents live it adds one agent with that
\* id, in state working with the thought bubble of the tool; with MAX_AGENTS
\* agents live the registry is unchanged.
C36_PlaceholderOnUnknownId ==
  [][LET d == lastEvent'.data
         id == ActingAgentId(d)
     IN (/\ lastEvent'.event_type = "pre_tool_use"
         /\ d.tool_name # "Task"
         /\ id # "main"
         /\ ~HasAgent(sm.agents, id))
        => /\ ~raised'
           /\ sm'.arrival_queue = sm.arrival_queue
           /\ sm'.handin_queue = sm.handin_queue
           /\ IF Len(sm.agents) < MAX_AGENTS
              THEN /\ Len(sm'.agents) = Len(sm.agents) + 1
                   /\ SubSeq(sm'.agents, 1, Len(sm.agents)) = sm.agents
                   /\ LET ghost == sm'.agents[Len(sm'.agents)]
                      IN /\ ghost.id = id
                         /\ ghost.state = "working"
                         /\ ghost.bubble = ToolToThought(lastEvent', HOME)
              ELSE sm'.agents = sm.agents]_vars

\* C36 witness: a PreToolUse of Read for an id that was not in the registry
\* has been folded and its placeholder, at work, has filled the office.
C36_Witness ==
  /\ lastEvent.event_type = "pre_tool_use"
  /\ lastEvent.data.tool_name = "Read"
  /\ ~raised
  /\ Len(sm.agents) = MAX_AGENTS
  /\ sm.agents[MAX_AGENTS].id = lastEvent.data.agent_id
  /\ sm.agents[MAX_AGENTS].current_task = "Resumed mid-session"
  /\ sm.agents[MAX_AGENTS].state = "working"
  /\ ~InSeq(sm.arrival_queue, lastEvent.data.agent_id)

\* the tool_use blocks read with this id are all Task blocks
OnlyTaskUses(id) ==
  /\ BlocksRead("tool_use", id) # {}
  /\ \A u \in BlocksRead("tool_use", id) :
       ReadLines[u[1]].blocks[u[2]].name = "Task"

\* C37  The delegation tool is skipped by the transcript poller: while the
\* only tool_use blocks read with an id are Task blocks, no PreToolUse has
\* been synthesized for the id, the id is not pending, and no PostToolUse
\* has been synthesized for it, whatever tool_result blocks were read.
C37_DelegationToolSkipped ==
  \A id \in ToolUseIds :
    OnlyTaskUses(id) => /\ EmittedOf("pre_tool_use", id) = {}
                        /\ ~IsActiveTool(polledAgent, id)
                        /\ EmittedOf("post_tool_use", id) = {}

\* C37 witness: a Task block with id X and then the tool_result of X have
\* been read by a poll task that is still polling, and nothing was emitted.
C37_Witness ==
  /\ watch["transcript"].pc = "read"
  /\ OnlyTaskUses("X")
  /\ \E u \in BlocksRead("tool_use", "X") :
       \E r \in BlocksRead("tool_result", "X") : BlockBefore(u, r)
  /\ emitted = <<>>

\* C38  Monotone read offset: the read offset of a polled agent never
\* decreases; a pass reads only what lies at or beyond the offset it found;
\* nothing is read by two passes; and a pass that finds the file no longer
\* than the offset reads nothing and emits nothing.
C38_MonotoneReadOffset ==
  /\ [][polledAgent'.file_position >= polledAgent.file_position]_vars
  /\ [](\A i \in 1..Len(ticks) :
          /\ \A b \in ticks[i].read : b > ticks[i].offset
          /\ \A j \in 1..Len(ticks) :
               i # j => ticks[i].read \cap ticks[j].read = {}
          /\ ticks[i].size <= ticks[i].offset
               => ticks[i].read = {} /\ ticks[i].events = 0)

\* C38 witness: a pass that read two lines and emitted, then a pass that
\* found the file emptied and read nothing, then a pass that read on from
\* the offset once the file had grown past it.
C38_Witness ==
  /\ Len(ticks) = 3
  /\ ticks[1].read = {1, 2} /\ ticks[1].events > 0
  /\ ticks[2].size < ticks[2].offset /\ ticks[2].read = {}
  /\ ticks[3].offset = 2 /\ ticks[3].read = {3}
  /\ polledAgent.file_position = 3

\* the texts of the blocks of one type read so far, in the order read
BlockTexts(type) ==
  LET lines == SelectSeq(ReadLines, LAMBDA l : l.blocks[1].type = type)
  IN [i \in 1..Len(lines) |-> lines[i].blocks[1].text]

\* the texts that differ from the text before them
RECURSIVE Deduplicated(_, _)
Deduplicated(texts, i) ==
  IF i > Len(texts) THEN <<>>
  ELSE (IF i = 1 \/ texts[i] # texts[i - 1] THEN <<texts[i]>> ELSE <<>>)
       \o Deduplicated(texts, i + 1)

\* the `thinking` (resp. `summary`) of the AgentUpdates emitted so far
UpdatesOf(field) ==
  LET updates == SelectSeq(emitted, LAMBDA e : e.data[field] # None)
  IN [i \in 1..Len(updates) |-> updates[i].data[field]]

\* C39  Thinking/text dedup: the AgentUpdates emitted for the thinking (resp.
\* text) blocks of one polled agent are those of the blocks whose content
\* differs from the content of the thinking (resp. text) block before them,
\* in order: identical consecutive blocks emit one AgentUpdate, different
\* consecutive blocks emit one each.
C39_ThinkingTextDedup ==
  /\ UpdatesOf("thinking") = Deduplicated(BlockTexts("thinking"), 1)
  /\ UpdatesOf("summary") = Deduplicated(BlockTexts("text"), 1)

\* `int(a) < int(b)` of two numerals as str(int(..)) writes them
MagnitudeLess(a, b) == Len(a) < Len(b) \/ (Len(a) = Len(b) /\ StrLess(a, b))
IntLess(a, b) ==
  IF CharAt(a, 1) = "-" /\ CharAt(b, 1) = "-"
  THEN MagnitudeLess(DropChars(b, 1), DropChars(a, 1))
  ELSE IF CharAt(a, 1) = "-" THEN TRUE
  ELSE IF CharAt(b, 1) = "-" THEN FALSE
  ELSE MagnitudeLess(a, b)

\* the order of the claim: numeric ids by their integer, before the
\* non-numeric ids, which go by the id
IdBefore(a, b) ==
  IF IsIntLiteral(a) /\ IsIntLiteral(b)
  THEN IntLess(IntNumeral(a), IntNumeral(b))
  ELSE IF IsIntLiteral(a) THEN TRUE
  ELSE IF IsIntLiteral(b) THEN FALSE
  ELSE StrLess(a, b)

\* the id of the task file a todo was made of
IdOfTodo(todo) ==
  TaskData(CHOOSE n \in SortFileNames : TaskData(n).subject = todo.content).id

\* C40  Task ordering: the todo list handed to the callback holds one todo
\* for every task file with a subject and none for the others, with status
\* pending where the task's status is unknown; no todo comes after a todo
\* whose id is later in the order "numeric ids by ascending integer, then
\* non-numeric ids lexicographically"; and the list is the same for every
\* order in which the files can be listed.
C40_TaskOrdering ==
  tick.ran =>
    LET names == DOMAIN tick.seen
        kept == {n \in names : TaskData(n).subject # ""}
        todos == tick.todos
    IN /\ Len(todos) = Cardinality(kept)
       /\ \A n \in kept :
            \E i \in 1..Len(todos) :
              /\ todos[i].content = TaskData(n).subject
              /\ todos[i].status =
                   IF TaskData(n).status
                        \in {"pending", "in_progress", "completed"}
                   THEN TaskData(n).status ELSE "pending"
       /\ \A i, j \in 1..Len(todos) :
            i < j => ~IdBefore(IdOfTodo(todos[j]), IdOfTodo(todos[i]))
       /\ \A listing \in Listings(names) : ReadTaskList(listing) = todos

====
